---- MODULE Spec2Model ----
(***************************************************************************)
(* Model of the proactive-security-orchestrator finding pipeline:          *)
(*   FindingValidator   (validators/finding_validator.py)                  *)
(*   SecurityScanner    (security_orchestrator.py)                         *)
(*   GitleaksScanner._redact_secret (tools/gitleaks_scanner.py)            *)
(*                                                                         *)
(* A finding is a TLA+ record whose DOMAIN is the set of keys the Python   *)
(* dict carries, so a missing key is a key outside the DOMAIN.  Strings    *)
(* the code takes apart (evidence "lines", secrets) are tuples of          *)
(* one-character strings; strings it only compares are TLA+ strings.       *)
(* confidence is kept in hundredths (90 is 0.9).                           *)
(***************************************************************************)
EXTENDS Integers, Sequences, FiniteSets, TLC

VARIABLES
    \* FindingValidator.validate_all: argument and locals
    findings, valid_findings, deduplicated, sorted_findings, vpc,
    \* SecurityScanner: configuration set by __init__
    enable_semgrep, enable_gitleaks, strict_validation, semgrep, gitleaks,
    \* os.getenv("ORCHESTRATOR_DISABLED") was "true" when __init__ ran
    kill_switch,
    \* SecurityScanner.scan: position, locals, outcome
    pc, all_findings, validated_findings, result,
    \* what the adapters did in this scan, and the calls scan made
    semgrep_out, gitleaks_out, calls,
    \* GitleaksScanner._redact_secret: argument and return value
    secret, redacted, rpc,
    \* GitleaksScanner._to_finding: argument and return value
    gl_match, gl_finding,
    \* SemgrepAnalyzer.analyze / GitleaksScanner.scan: what subprocess.run
    \* did, and what the adapter gave back
    sg_proc, sg_out, gl_proc, gl_out,
    \* sort_key: argument and return value
    key_in, key_out,
    \* what the caller of the previous scan gave the adapters and got back
    prev,
    \* cli.scan: options, the list scan returned, position, the output
    \* written so far, the exit code
    cli_format, cli_output, cli_fail_on_critical, cli_findings, cli_pc, cli_written, cli_exit,
    \* OutputFormatter.to_sarif: argument and the document built
    sarif_in, sarif_out,
    \* SecurityScanner.__init__: process environment, env argument, position
    os_env, env_arg, ipc

validatorVars == <<findings, valid_findings, deduplicated, sorted_findings, vpc>>
configVars == <<enable_semgrep, enable_gitleaks, strict_validation, semgrep, gitleaks, kill_switch>>
scanVars == <<pc, all_findings, validated_findings, result, semgrep_out, gitleaks_out, calls>>
redactVars == <<secret, redacted, rpc>>
adapterVars == <<gl_match, gl_finding, sg_proc, sg_out, gl_proc, gl_out>>
keyVars == <<key_in, key_out>>
cliVars == <<cli_format, cli_output, cli_fail_on_critical, cli_findings, cli_pc, cli_written, cli_exit>>
sarifVars == <<sarif_in, sarif_out>>
initVars == <<os_env, env_arg, ipc>>
auxVars == <<keyVars, prev, cliVars, sarifVars, initVars>>
vars == <<validatorVars, configVars, scanVars, redactVars, adapterVars, auxVars>>

\* ---------------------------------------------------------------- bounds
MaxBatch == 3
MaxOut == 2
MaxSecretLen == 11
MaxNative == 2
MaxLinesLen == 4
MaxLine == 12

\* ------------------------------------------------------- Python helpers
None == "None"
\* Python's None as a value a call returns
PyNone == [py_none |-> TRUE]

\* outcome of a call: not made (or not over), raised, or returned a value
NotCalled == [kind |-> "not_called"]
Raised == [kind |-> "raised"]
Returned(v) == [kind |-> "returned", value |-> v]

\* dict.get(key, default)
Get(d, k, default) == IF k \in DOMAIN d THEN d[k] ELSE default

\* sequences over S of length at most n
SeqUpTo(S, n) == UNION {[1..k -> S] : k \in 0..n}

Digits == {"0", "1", "2", "3", "4", "5", "6", "7", "8", "9"}

DigitVal(c) ==
    CASE c = "0" -> 0 [] c = "1" -> 1 [] c = "2" -> 2 [] c = "3" -> 3
      [] c = "4" -> 4 [] c = "5" -> 5 [] c = "6" -> 6 [] c = "7" -> 7
      [] c = "8" -> 8 [] c = "9" -> 9

\* str.replace(old, "") for a one-character old
RemoveChar(s, old) == SelectSeq(s, LAMBDA c : c # old)

\* str.split(sep)[0] for a one-character sep
RECURSIVE SplitFirst(_, _)
SplitFirst(s, sep) ==
    IF s = <<>> \/ Head(s) = sep THEN <<>>
    ELSE <<Head(s)>> \o SplitFirst(Tail(s), sep)

\* int(s) raises ValueError unless s is a non-empty run of digits
\* (over the characters used here: digits, "L", "-", letters)
IntParses(s) == s # <<>> /\ \A i \in 1..Len(s) : s[i] \in Digits

RECURSIVE IntOf(_)
IntOf(s) ==
    IF s = <<>> THEN 0
    ELSE 10 * IntOf(SubSeq(s, 1, Len(s) - 1)) + DigitVal(s[Len(s)])

\* str.lower() on the severity, format and flag strings used here
Lower(s) ==
    CASE s = "CRITICAL" -> "critical"
      [] s = "High" -> "high"
      [] s = "JSON" -> "json"
      [] s = "TRUE" -> "true"
      [] s = "True" -> "true"
      [] s = "False" -> "false"
      [] OTHER -> s

\* ------------------------------------------ contracts/child_agent_schema
SeverityEnum == {"critical", "high", "medium", "low", "info"}
RequiredFields == {"finding", "evidence", "confidence", "tool", "severity"}

\* Draft7Validator(schema).validate(finding) does not raise
SchemaValid(f) ==
    /\ RequiredFields \subseteq DOMAIN f
    /\ f.severity \in SeverityEnum
    /\ f.confidence \in 0..100

\* ------------------------------------------------------ FindingValidator
\* faulty variant: the except branch appends the record as well
ValidateLoop_keepsInvalid(fs, acc) == acc \o fs

\* faulty variant: the first invalid record ends the loop
RECURSIVE ValidateLoop_aborts(_, _)
ValidateLoop_aborts(fs, acc) ==
    IF fs = <<>> THEN acc
    ELSE IF SchemaValid(Head(fs))
         THEN ValidateLoop_aborts(Tail(fs), Append(acc, Head(fs)))
         ELSE acc

\* the for loop of validate_all: append the records that validate
RECURSIVE ValidateLoop(_, _)
ValidateLoop(fs, acc) ==
    IF fs = <<>> THEN acc
    ELSE IF SchemaValid(Head(fs))
         THEN ValidateLoop(Tail(fs), Append(acc, Head(fs)))
         ELSE ValidateLoop(Tail(fs), acc)

\* faulty variant: a record without evidence gets empty path and lines
DedupKey_evidenceOnly(f) ==
    LET evidence == Get(f, "evidence", <<>>)
        path == IF evidence = <<>> THEN "" ELSE Get(evidence[1], "path", "")
        lines == IF evidence = <<>> THEN <<>> ELSE Get(evidence[1], "lines", <<>>)
        rule_id == Get(f, "rule_id", "")
    IN <<path, lines, rule_id>>

\* faulty variant: the confidence is part of the key
DedupKey_withConfidence(f) ==
    LET evidence == Get(f, "evidence", <<>>)
        path == IF evidence = <<>> THEN Get(f, "path", "")
                ELSE Get(evidence[1], "path", "")
        lines == IF evidence = <<>> THEN Get(f, "lines", <<>>)
                 ELSE Get(evidence[1], "lines", <<>>)
        rule_id == Get(f, "rule_id", "")
    IN <<path, lines, rule_id, Get(f, "confidence", 0)>>

\* the key _deduplicate derives for one finding
DedupKey(f) ==
    LET evidence == Get(f, "evidence", <<>>)
        path == IF evidence = <<>> THEN Get(f, "path", "")
                ELSE Get(evidence[1], "path", "")
        lines == IF evidence = <<>> THEN Get(f, "lines", <<>>)
                 ELSE Get(evidence[1], "lines", <<>>)
        rule_id == Get(f, "rule_id", "")
    IN <<path, lines, rule_id>>

\* faulty variant: a duplicate is merged into the record kept for its
\* key, which takes the more severe of the two severities
RECURSIVE DedupLoop_merges(_, _, _)
DedupLoop_merges(fs, seen, unique_findings) ==
    IF fs = <<>> THEN unique_findings
    ELSE LET key == DedupKey(Head(fs))
         IN IF key \notin seen
            THEN DedupLoop_merges(Tail(fs), seen \cup {key}, Append(unique_findings, Head(fs)))
            ELSE DedupLoop_merges(Tail(fs), seen,
                    [i \in 1..Len(unique_findings) |->
                        IF DedupKey(unique_findings[i]) = key
                           /\ Head(fs).severity = "critical"
                        THEN [unique_findings[i] EXCEPT !.severity = "critical"]
                        ELSE unique_findings[i]])

\* faulty variant: a later record replaces the one kept for its key
RECURSIVE DedupLoop_lastWins(_, _, _)
DedupLoop_lastWins(fs, seen, unique_findings) ==
    IF fs = <<>> THEN unique_findings
    ELSE LET key == DedupKey(Head(fs))
         IN IF key \notin seen
            THEN DedupLoop_lastWins(Tail(fs), seen \cup {key}, Append(unique_findings, Head(fs)))
            ELSE DedupLoop_lastWins(Tail(fs), seen,
                    [i \in 1..Len(unique_findings) |->
                        IF DedupKey(unique_findings[i]) = key THEN Head(fs)
                        ELSE unique_findings[i]])

RECURSIVE DedupLoop(_, _, _)
DedupLoop(fs, seen, unique_findings) ==
    IF fs = <<>> THEN unique_findings
    ELSE LET key == DedupKey(Head(fs))
         IN IF key \notin seen
            THEN DedupLoop(Tail(fs), seen \cup {key}, Append(unique_findings, Head(fs)))
            ELSE DedupLoop(Tail(fs), seen, unique_findings)

\* faulty variant: the keys of the previous call's result are still in seen
_deduplicate_remembers(fs) ==
    DedupLoop(fs,
              IF prev = NotCalled \/ prev.result.kind # "returned" THEN {}
              ELSE {DedupKey(prev.result.value[i]) : i \in 1..Len(prev.result.value)},
              <<>>)

_deduplicate(fs) == DedupLoop(fs, {}, <<>>)

severity_order ==
    [s \in SeverityEnum |->
        CASE s = "critical" -> 0 [] s = "high" -> 1 [] s = "medium" -> 2
          [] s = "low" -> 3 [] s = "info" -> 4]

sort_key(f) ==
    LET severity == Lower(Get(f, "severity", "info"))
        severity_score == IF severity \in DOMAIN severity_order
                          THEN severity_order[severity] ELSE 4
        evidence == Get(f, "evidence", <<>>)
        lines_str == IF evidence # <<>> THEN Get(evidence[1], "lines", <<>>) ELSE <<>>
        first == SplitFirst(RemoveChar(lines_str, "L"), "-")
        line_num == IF evidence # <<>> /\ lines_str # <<>> /\ IntParses(first)
                    THEN IntOf(first) ELSE 0
    IN <<severity_score, line_num>>

\* faulty variant: only the severity score is compared
KeyLess_severityOnly(a, b) == a[1] < b[1]

\* tuple comparison of two sort keys
KeyLess(a, b) == a[1] < b[1] \/ (a[1] = b[1] /\ a[2] < b[2])

\* faulty variant: a record goes in front of the first record whose key
\* is not smaller, so records with equal keys come out reversed
RECURSIVE InsertByKey_unstable(_, _)
InsertByKey_unstable(s, f) ==
    IF s = <<>> THEN <<f>>
    ELSE IF ~KeyLess(sort_key(Head(s)), sort_key(f))
         THEN <<f>> \o s
         ELSE <<Head(s)>> \o InsertByKey_unstable(Tail(s), f)

\* sorted(findings, key=sort_key): stable, so a record goes in front of the
\* first record whose key is strictly greater
RECURSIVE InsertByKey(_, _)
InsertByKey(s, f) ==
    IF s = <<>> THEN <<f>>
    ELSE IF KeyLess(sort_key(f), sort_key(Head(s)))
         THEN <<f>> \o s
         ELSE <<Head(s)>> \o InsertByKey(Tail(s), f)

RECURSIVE SortedLoop(_, _)
SortedLoop(fs, acc) ==
    IF fs = <<>> THEN acc
    ELSE SortedLoop(Tail(fs), InsertByKey(acc, Head(fs)))

\* faulty variant: the sorted list is handed back in descending order
_sort_by_severity_reversed(fs) ==
    LET sorted == SortedLoop(fs, <<>>)
    IN [i \in 1..Len(sorted) |-> sorted[Len(sorted) + 1 - i]]

_sort_by_severity(fs) == SortedLoop(fs, <<>>)

validate_all(fs) == _sort_by_severity(_deduplicate(ValidateLoop(fs, <<>>)))

\* ------------------------------------------------- records used as input
L(d) == <<"L">> \o d
Ev(path, lines) == [path |-> path, lines |-> lines, why_relevant |-> "w", code_snippet |-> "c"]

Finding(sev, path, lines, rule, tool, rem) ==
    [finding |-> "f", evidence |-> <<Ev(path, lines)>>, confidence |-> 90,
     tool |-> tool, severity |-> sev, rule_id |-> rule, remediation |-> rem]

F_crit_a5 == Finding("critical", "a.py", L(<<"5">>), "r1", "semgrep", "fix")
\* same key as F_crit_a5, other tool, severity and remediation
F_high_a5 == Finding("high", "a.py", L(<<"5">>), "r1", "gitleaks", "rotate")
F_high_a10 == Finding("high", "a.py", L(<<"1", "0">>) \o <<"-">> \o L(<<"1", "2">>), "r2", "semgrep", "fix")
F_high_a2 == Finding("high", "a.py", L(<<"2">>), "r2", "semgrep", "fix")
F_high_b2 == Finding("high", "b.py", L(<<"2">>), "r2", "gitleaks", "fix")
F_low_b5 == Finding("low", "b.py", L(<<"5">>), "r1", "semgrep", "fix")
\* lines that int() cannot parse
F_med_bad == Finding("medium", "b.py", <<"x">>, "r3", "semgrep", "fix")
\* empty evidence list, no rule_id
F_info_noev == [finding |-> "f", evidence |-> <<>>, confidence |-> 50,
                tool |-> "semgrep", severity |-> "info"]
\* records the schema rejects
F_noSeverity == [finding |-> "f", evidence |-> <<Ev("a.py", L(<<"5">>))>>, confidence |-> 90,
                 tool |-> "semgrep", rule_id |-> "r1"]
F_badSeverity == Finding("urgent", "a.py", L(<<"1">>), "r4", "semgrep", "fix")
F_noEvidence == [finding |-> "f", confidence |-> 90, tool |-> "gitleaks",
                 severity |-> "critical", rule_id |-> "r5"]
F_badConfidence == [F_high_a2 EXCEPT !.confidence = 150]
F_noConfidence == [finding |-> "f", evidence |-> <<Ev("b.py", L(<<"5">>))>>,
                   tool |-> "semgrep", severity |-> "low", rule_id |-> "r1"]
F_noTool == [finding |-> "f", evidence |-> <<Ev("a.py", L(<<"2">>))>>, confidence |-> 90,
             severity |-> "high", rule_id |-> "r2"]
F_onlyFinding == [finding |-> "Test"]

ValidRecords == {F_crit_a5, F_high_a5, F_high_a10, F_high_a2, F_high_b2, F_low_b5,
                 F_med_bad, F_info_noev}
InvalidRecords == {F_noSeverity, F_badSeverity, F_noEvidence, F_badConfidence,
                   F_noConfidence, F_noTool, F_onlyFinding}
Records == ValidRecords \cup InvalidRecords

\* records the adapters hand to scan
AdapterRecords == {F_crit_a5, F_high_a5, F_high_a2, F_noSeverity}

\* ------------------------------------------------------------ initial state
ValidatorIdle ==
    /\ findings = <<>> /\ valid_findings = <<>> /\ deduplicated = <<>>
    /\ sorted_findings = <<>> /\ vpc = "idle"

ConfigIdle ==
    /\ enable_semgrep = FALSE /\ enable_gitleaks = FALSE /\ strict_validation = FALSE
    /\ semgrep = None /\ gitleaks = None /\ kill_switch = FALSE

ScanIdle ==
    /\ pc = "idle" /\ all_findings = <<>> /\ validated_findings = <<>> /\ result = NotCalled
    /\ semgrep_out = NotCalled /\ gitleaks_out = NotCalled /\ calls = <<>>

RedactIdle == secret = <<>> /\ redacted = <<>> /\ rpc = "idle"

AdapterIdle ==
    /\ gl_match = NotCalled /\ gl_finding = NotCalled
    /\ sg_proc = NotCalled /\ sg_out = NotCalled
    /\ gl_proc = NotCalled /\ gl_out = NotCalled

KeyIdle == key_in = NotCalled /\ key_out = NotCalled

CliIdle ==
    /\ cli_format = "json" /\ cli_output = None /\ cli_fail_on_critical = TRUE
    /\ cli_findings = NotCalled /\ cli_pc = "idle" /\ cli_written = <<>>
    /\ cli_exit = NotCalled

SarifIdle == sarif_in = <<>> /\ sarif_out = NotCalled

InitIdle == os_env = <<>> /\ env_arg = <<>> /\ ipc = "idle"

AuxIdle == KeyIdle /\ prev = NotCalled /\ CliIdle /\ SarifIdle /\ InitIdle

\* ------------------------------------------- FindingValidator.validate_all
InitValidator ==
    /\ findings \in SeqUpTo(Records, MaxBatch)
    /\ valid_findings = <<>> /\ deduplicated = <<>> /\ sorted_findings = <<>>
    /\ vpc = "called"
    /\ ConfigIdle /\ ScanIdle /\ RedactIdle /\ AdapterIdle /\ AuxIdle

\* faulty variant: the valid records are sorted first and deduplicated last
CallValidateAll_sortFirst(fs) ==
    /\ findings' = fs
    /\ valid_findings' = ValidateLoop(fs, <<>>)
    /\ deduplicated' = _sort_by_severity(valid_findings')
    /\ sorted_findings' = _deduplicate(deduplicated')
    /\ vpc' = "returned"

\* one call validate_all(fs), its locals kept in the validator variables
CallValidateAll(fs) ==
    /\ findings' = fs
    /\ valid_findings' = ValidateLoop(fs, <<>>)
    /\ deduplicated' = _deduplicate(valid_findings')
    /\ sorted_findings' = _sort_by_severity(deduplicated')
    /\ vpc' = "returned"

ValidateAll ==
    /\ vpc = "called"
    /\ CallValidateAll(findings)
    /\ UNCHANGED <<configVars, scanVars, redactVars, adapterVars, auxVars>>

NextValidator == ValidateAll
SpecValidator == InitValidator /\ [][NextValidator]_vars

\* a caller hands the list validate_all returned to validate_all again;
\* prev keeps the first call's argument and result
ValidateAgain ==
    /\ vpc = "returned" /\ prev = NotCalled
    /\ prev' = [kind |-> "returned", input |-> findings, value |-> sorted_findings]
    /\ CallValidateAll(sorted_findings)
    /\ UNCHANGED <<keyVars, cliVars, sarifVars, initVars>>
    /\ UNCHANGED <<configVars, scanVars, redactVars, adapterVars>>

NextRevalidate == ValidateAll \/ ValidateAgain
SpecRevalidate == InitValidator /\ [][NextRevalidate]_vars

\* ----------------------------------------------- _deduplicate on its own
\* records without evidence, with and without path and lines of their own
N_missing_r1 == [finding |-> "x", rule_id |-> "r1", severity |-> "low"]
N_empty_r1 == [finding |-> "y", evidence |-> <<>>, rule_id |-> "r1", severity |-> "high"]
N_path_r1 == [finding |-> "z", evidence |-> <<>>, rule_id |-> "r1",
              path |-> "a.py", lines |-> L(<<"5">>)]
N_otherPath_r1 == [finding |-> "z", evidence |-> <<>>, rule_id |-> "r1", path |-> "b.py"]
N_lines_r1 == [finding |-> "w", rule_id |-> "r1", lines |-> L(<<"5">>)]
N_empty_r2 == [finding |-> "y", evidence |-> <<>>, rule_id |-> "r2"]
N_noRule == [finding |-> "v", evidence |-> <<>>]
DedupRecords ==
    {N_missing_r1, N_empty_r1, N_path_r1, N_otherPath_r1, N_lines_r1, N_empty_r2, N_noRule,
     F_crit_a5}

InitDedup ==
    /\ findings \in SeqUpTo(DedupRecords, MaxBatch)
    /\ valid_findings = <<>> /\ deduplicated = <<>> /\ sorted_findings = <<>>
    /\ vpc = "dedup_called"
    /\ ConfigIdle /\ ScanIdle /\ RedactIdle /\ AdapterIdle /\ AuxIdle

\* one call _deduplicate(findings)
Deduplicate ==
    /\ vpc = "dedup_called"
    /\ deduplicated' = _deduplicate(findings)
    /\ vpc' = "dedup_returned"
    /\ UNCHANGED <<findings, valid_findings, sorted_findings>>
    /\ UNCHANGED <<configVars, scanVars, redactVars, adapterVars, auxVars>>

NextDedup == Deduplicate
SpecDedup == InitDedup /\ [][NextDedup]_vars

\* ------------------------------------------------------ sort_key on its own
\* the characters of the lines strings given to sort_key
LinesChars == {"L", "1", "2", "-"}
KeySeverities == {"critical", "high", "medium", "low", "info", "CRITICAL", "High", "urgent"}

\* records for sort_key: with and without severity, without evidence,
\* with empty evidence, with an evidence item without lines, and with
\* every lines string over LinesChars
KeyRecords ==
    {[finding |-> "f"], [finding |-> "f", severity |-> "high", evidence |-> <<>>],
     [finding |-> "f", severity |-> "high", evidence |-> <<[path |-> "a.py"]>>],
     [finding |-> "f", evidence |-> <<Ev("a.py", L(<<"7">>))>>]}
    \cup {[finding |-> "f", severity |-> sev, evidence |-> <<Ev("a.py", ls)>>] :
            sev \in KeySeverities, ls \in SeqUpTo(LinesChars, MaxLinesLen)}

InitSortKey ==
    /\ key_in \in KeyRecords
    /\ key_out = NotCalled
    /\ prev = NotCalled /\ CliIdle /\ SarifIdle /\ InitIdle
    /\ ConfigIdle /\ ScanIdle /\ ValidatorIdle /\ RedactIdle /\ AdapterIdle

\* one call sort_key(finding)
SortKey ==
    /\ key_in # NotCalled /\ key_out = NotCalled
    /\ key_out' = Returned(sort_key(key_in))
    /\ UNCHANGED <<key_in, prev, cliVars, sarifVars, initVars>>
    /\ UNCHANGED <<validatorVars, configVars, scanVars, redactVars, adapterVars>>

NextSortKey == SortKey
SpecSortKey == InitSortKey /\ [][NextSortKey]_vars

\* ------------------------------------------------------- SecurityScanner
AdapterOutputs == SeqUpTo(AdapterRecords, MaxOut)

\* __init__: the three flags as resolved from the environment, the kill
\* switch, and the child agents built only for enabled tools
Init ==
    /\ kill_switch \in BOOLEAN
    /\ strict_validation \in BOOLEAN
    /\ enable_semgrep \in (IF kill_switch THEN {FALSE} ELSE BOOLEAN)
    /\ enable_gitleaks \in (IF kill_switch THEN {FALSE} ELSE BOOLEAN)
    /\ semgrep = (IF enable_semgrep THEN "SemgrepAnalyzer" ELSE None)
    /\ gitleaks = (IF enable_gitleaks THEN "GitleaksScanner" ELSE None)
    /\ ScanIdle /\ ValidatorIdle /\ RedactIdle /\ AdapterIdle /\ AuxIdle

\* ---------------------------------------------- SecurityScanner.__init__
FlagKeys == {"ENABLE_SEMGREP", "ENABLE_GITLEAKS", "STRICT_VALIDATION"}
KillKey == "ORCHESTRATOR_DISABLED"

\* dicts whose keys are some of keys and whose values come from vals
EnvDicts(keys, vals) == UNION {[K -> vals] : K \in SUBSET keys}

\* the process environments and the env arguments of the constructor
ProcessEnvs == EnvDicts(FlagKeys \cup {KillKey}, {"true", "TRUE", "false", "1"})
EnvArgs ==
    {PyNone} \cup
    {d \in EnvDicts(FlagKeys \cup {KillKey}, {"true", "false", "yes"}) :
        KillKey \in DOMAIN d => d[KillKey] = "true"}

\* os.getenv(key, default)
getenv(key, default) == Get(os_env, key, default)

\* str(flag) of a bool
BoolToStr(flag) == IF flag THEN "True" ELSE "False"

\* faulty variant: "1" switches a flag on as well
FlagOn_acceptsOne(value) == Lower(value) \in {"true", "1"}

\* value.lower() == "true"
FlagOn(value) == Lower(value) = "true"

\* `if env:` is taken for a dict that is not empty
EnvGiven(env) == env # PyNone /\ DOMAIN env # {}

\* a flag after the lines that read the process environment and then the
\* env dict
ResolvedFlag(key, default) ==
    LET from_process == FlagOn(getenv(key, default))
    IN IF EnvGiven(env_arg)
       THEN FlagOn(Get(env_arg, key, BoolToStr(from_process)))
       ELSE from_process

InitConstruct ==
    /\ os_env \in ProcessEnvs
    /\ env_arg \in EnvArgs
    /\ ipc = "called"
    /\ KeyIdle /\ prev = NotCalled /\ CliIdle /\ SarifIdle
    /\ ConfigIdle /\ ScanIdle /\ ValidatorIdle /\ RedactIdle /\ AdapterIdle

\* SecurityScanner(config_dir, timeout, env)
Construct ==
    /\ ipc = "called"
    /\ kill_switch' = FlagOn(getenv(KillKey, "false"))
    /\ strict_validation' = ResolvedFlag("STRICT_VALIDATION", "false")
    /\ enable_semgrep' = (~kill_switch' /\ ResolvedFlag("ENABLE_SEMGREP", "true"))
    /\ enable_gitleaks' = (~kill_switch' /\ ResolvedFlag("ENABLE_GITLEAKS", "true"))
    /\ semgrep' = (IF enable_semgrep' THEN "SemgrepAnalyzer" ELSE None)
    /\ gitleaks' = (IF enable_gitleaks' THEN "GitleaksScanner" ELSE None)
    /\ ipc' = "constructed"
    /\ UNCHANGED <<os_env, env_arg, keyVars, prev, cliVars, sarifVars>>
    /\ UNCHANGED <<validatorVars, scanVars, redactVars, adapterVars>>

NextConstruct == Construct
SpecConstruct == InitConstruct /\ [][NextConstruct]_vars

\* scan(repo_path) on a path that does not exist
ScanMissingPath ==
    /\ pc = "idle"
    /\ result' = Returned(<<>>)
    /\ pc' = "complete"
    /\ UNCHANGED <<all_findings, validated_findings, semgrep_out, gitleaks_out, calls>>
    /\ UNCHANGED <<validatorVars, configVars, redactVars, adapterVars, auxVars>>

\* scan(repo_path) on an existing path: all_findings = []
ScanStart ==
    /\ pc = "idle"
    /\ all_findings' = <<>>
    /\ pc' = "semgrep"
    /\ UNCHANGED <<validated_findings, result, semgrep_out, gitleaks_out, calls>>
    /\ UNCHANGED <<validatorVars, configVars, redactVars, adapterVars, auxVars>>

\* if self.semgrep: is false
SemgrepSkipped ==
    /\ pc = "semgrep"
    /\ semgrep = None
    /\ pc' = "gitleaks"
    /\ UNCHANGED <<all_findings, validated_findings, result, semgrep_out, gitleaks_out, calls>>
    /\ UNCHANGED <<validatorVars, configVars, redactVars, adapterVars, auxVars>>

\* self.semgrep.analyze(repo_path) returns a list
SemgrepReturns ==
    /\ pc = "semgrep"
    /\ semgrep # None
    /\ \E out \in AdapterOutputs :
        /\ semgrep_out' = Returned(out)
        /\ all_findings' = all_findings \o out
    /\ calls' = Append(calls, "semgrep.analyze")
    /\ pc' = "gitleaks"
    /\ UNCHANGED <<validated_findings, result, gitleaks_out>>
    /\ UNCHANGED <<validatorVars, configVars, redactVars, adapterVars, auxVars>>

\* faulty variant: after a suppressed Semgrep failure Gitleaks is not run
SemgrepRaises_skipsGitleaks ==
    /\ pc = "semgrep"
    /\ semgrep # None
    /\ semgrep_out' = Raised
    /\ calls' = Append(calls, "semgrep.analyze")
    /\ pc' = (IF strict_validation THEN "failed" ELSE "check")
    /\ UNCHANGED <<all_findings, validated_findings, result, gitleaks_out>>
    /\ UNCHANGED <<validatorVars, configVars, redactVars, adapterVars, auxVars>>

\* faulty variant: the exception is re-raised whatever strict_validation is
SemgrepRaises_alwaysFatal ==
    /\ pc = "semgrep"
    /\ semgrep # None
    /\ semgrep_out' = Raised
    /\ calls' = Append(calls, "semgrep.analyze")
    /\ pc' = "failed"
    /\ UNCHANGED <<all_findings, validated_findings, result, gitleaks_out>>
    /\ UNCHANGED <<validatorVars, configVars, redactVars, adapterVars, auxVars>>

\* self.semgrep.analyze(repo_path) raises
SemgrepRaises ==
    /\ pc = "semgrep"
    /\ semgrep # None
    /\ semgrep_out' = Raised
    /\ calls' = Append(calls, "semgrep.analyze")
    /\ pc' = (IF strict_validation THEN "failed" ELSE "gitleaks")
    /\ UNCHANGED <<all_findings, validated_findings, result, gitleaks_out>>
    /\ UNCHANGED <<validatorVars, configVars, redactVars, adapterVars, auxVars>>

\* if self.gitleaks: is false
GitleaksSkipped ==
    /\ pc = "gitleaks"
    /\ gitleaks = None
    /\ pc' = "check"
    /\ UNCHANGED <<all_findings, validated_findings, result, semgrep_out, gitleaks_out, calls>>
    /\ UNCHANGED <<validatorVars, configVars, redactVars, adapterVars, auxVars>>

\* faulty variant: Gitleaks is called although it is disabled
GitleaksReturns_ignoresFlag ==
    /\ pc = "gitleaks"
    /\ \E out \in AdapterOutputs :
        /\ gitleaks_out' = Returned(out)
        /\ all_findings' = all_findings \o out
    /\ calls' = Append(calls, "gitleaks.scan")
    /\ pc' = "check"
    /\ UNCHANGED <<validated_findings, result, semgrep_out>>
    /\ UNCHANGED <<validatorVars, configVars, redactVars, adapterVars, auxVars>>

\* faulty variant: the Gitleaks list replaces what was collected so far
GitleaksReturns_overwrites ==
    /\ pc = "gitleaks"
    /\ gitleaks # None
    /\ \E out \in AdapterOutputs :
        /\ gitleaks_out' = Returned(out)
        /\ all_findings' = out
    /\ calls' = Append(calls, "gitleaks.scan")
    /\ pc' = "check"
    /\ UNCHANGED <<validated_findings, result, semgrep_out>>
    /\ UNCHANGED <<validatorVars, configVars, redactVars, adapterVars, auxVars>>

\* faulty variant: the Gitleaks list is put in front of the Semgrep list
GitleaksReturns_prepends ==
    /\ pc = "gitleaks"
    /\ gitleaks # None
    /\ \E out \in AdapterOutputs :
        /\ gitleaks_out' = Returned(out)
        /\ all_findings' = out \o all_findings
    /\ calls' = Append(calls, "gitleaks.scan")
    /\ pc' = "check"
    /\ UNCHANGED <<validated_findings, result, semgrep_out>>
    /\ UNCHANGED <<validatorVars, configVars, redactVars, adapterVars, auxVars>>

\* self.gitleaks.scan(repo_path) returns a list
GitleaksReturns ==
    /\ pc = "gitleaks"
    /\ gitleaks # None
    /\ \E out \in AdapterOutputs :
        /\ gitleaks_out' = Returned(out)
        /\ all_findings' = all_findings \o out
    /\ calls' = Append(calls, "gitleaks.scan")
    /\ pc' = "check"
    /\ UNCHANGED <<validated_findings, result, semgrep_out>>
    /\ UNCHANGED <<validatorVars, configVars, redactVars, adapterVars, auxVars>>

\* faulty variant: the exception is swallowed in strict mode too
GitleaksRaises_swallows ==
    /\ pc = "gitleaks"
    /\ gitleaks # None
    /\ gitleaks_out' = Raised
    /\ calls' = Append(calls, "gitleaks.scan")
    /\ pc' = "check"
    /\ UNCHANGED <<all_findings, validated_findings, result, semgrep_out>>
    /\ UNCHANGED <<validatorVars, configVars, redactVars, adapterVars, auxVars>>

\* self.gitleaks.scan(repo_path) raises
GitleaksRaises ==
    /\ pc = "gitleaks"
    /\ gitleaks # None
    /\ gitleaks_out' = Raised
    /\ calls' = Append(calls, "gitleaks.scan")
    /\ pc' = (IF strict_validation THEN "failed" ELSE "check")
    /\ UNCHANGED <<all_findings, validated_findings, result, semgrep_out>>
    /\ UNCHANGED <<validatorVars, configVars, redactVars, adapterVars, auxVars>>

\* faulty variant: the early return is missing, validation runs instead
NoToolsEnabled_fallsThrough ==
    /\ pc = "check"
    /\ ~enable_semgrep /\ ~enable_gitleaks
    /\ CallValidateAll(all_findings)
    /\ validated_findings' = sorted_findings'
    /\ calls' = Append(calls, "validate_all")
    /\ pc' = "metrics"
    /\ UNCHANGED <<all_findings, result, semgrep_out, gitleaks_out>>
    /\ UNCHANGED <<configVars, redactVars, adapterVars, auxVars>>

\* if not self.enable_semgrep and not self.enable_gitleaks: return []
NoToolsEnabled ==
    /\ pc = "check"
    /\ ~enable_semgrep /\ ~enable_gitleaks
    /\ result' = Returned(<<>>)
    /\ pc' = "complete"
    /\ UNCHANGED <<all_findings, validated_findings, semgrep_out, gitleaks_out, calls>>
    /\ UNCHANGED <<validatorVars, configVars, redactVars, adapterVars, auxVars>>

\* validated_findings = self.validator.validate_all(all_findings)
Validate ==
    /\ pc = "check"
    /\ enable_semgrep \/ enable_gitleaks
    /\ CallValidateAll(all_findings)
    /\ validated_findings' = sorted_findings'
    /\ calls' = Append(calls, "validate_all")
    /\ pc' = "metrics"
    /\ UNCHANGED <<all_findings, result, semgrep_out, gitleaks_out>>
    /\ UNCHANGED <<configVars, redactVars, adapterVars, auxVars>>

\* faulty variant: the metrics step hands back the raw list
LogMetricsAndReturn_returnsRaw ==
    /\ pc = "metrics"
    /\ calls' = Append(calls, "_log_orchestration_metrics")
    /\ result' = Returned(all_findings)
    /\ pc' = "complete"
    /\ UNCHANGED <<all_findings, validated_findings, semgrep_out, gitleaks_out>>
    /\ UNCHANGED <<validatorVars, configVars, redactVars, adapterVars, auxVars>>

\* self._log_orchestration_metrics(...); return validated_findings
LogMetricsAndReturn ==
    /\ pc = "metrics"
    /\ calls' = Append(calls, "_log_orchestration_metrics")
    /\ result' = Returned(validated_findings)
    /\ pc' = "complete"
    /\ UNCHANGED <<all_findings, validated_findings, semgrep_out, gitleaks_out>>
    /\ UNCHANGED <<validatorVars, configVars, redactVars, adapterVars, auxVars>>

\* the call is over (returned or raised); the scanner is ready for the next
\* scan and keeps nothing but its configuration
ScanOver ==
    /\ pc \in {"complete", "failed"}
    /\ pc' = "idle" /\ all_findings' = <<>> /\ validated_findings' = <<>> /\ result' = NotCalled
    /\ semgrep_out' = NotCalled /\ gitleaks_out' = NotCalled /\ calls' = <<>>
    /\ findings' = <<>> /\ valid_findings' = <<>> /\ deduplicated' = <<>>
    /\ sorted_findings' = <<>> /\ vpc' = "idle"
    /\ UNCHANGED <<configVars, redactVars, adapterVars, auxVars>>

Next ==
    \/ ScanMissingPath \/ ScanStart
    \/ SemgrepSkipped \/ SemgrepReturns \/ SemgrepRaises
    \/ GitleaksSkipped \/ GitleaksReturns \/ GitleaksRaises
    \/ NoToolsEnabled \/ Validate \/ LogMetricsAndReturn
    \/ ScanOver

Spec == Init /\ [][Next]_vars

\* ------------------------------------------ one scanner, one scan after another
\* the lists the adapters return in these repeated scans
RescanOutputs == {<<>>, <<F_crit_a5>>, <<F_high_a5, F_high_a2>>}

RescanSemgrepReturns ==
    /\ SemgrepReturns
    /\ semgrep_out' \in {Returned(out) : out \in RescanOutputs}

RescanGitleaksReturns ==
    /\ GitleaksReturns
    /\ gitleaks_out' \in {Returned(out) : out \in RescanOutputs}

\* the call is over and the caller keeps what this scan was given and
\* what it gave back; the scanner keeps nothing but its configuration
ScanOverKept ==
    /\ pc \in {"complete", "failed"}
    /\ prev' = [semgrep_out |-> semgrep_out, gitleaks_out |-> gitleaks_out, result |-> result]
    /\ pc' = "idle" /\ all_findings' = <<>> /\ validated_findings' = <<>> /\ result' = NotCalled
    /\ semgrep_out' = NotCalled /\ gitleaks_out' = NotCalled /\ calls' = <<>>
    /\ findings' = <<>> /\ valid_findings' = <<>> /\ deduplicated' = <<>>
    /\ sorted_findings' = <<>> /\ vpc' = "idle"
    /\ UNCHANGED <<keyVars, cliVars, sarifVars, initVars>>
    /\ UNCHANGED <<configVars, redactVars, adapterVars>>

NextRescan ==
    \/ ScanMissingPath \/ ScanStart
    \/ SemgrepSkipped \/ RescanSemgrepReturns \/ SemgrepRaises
    \/ GitleaksSkipped \/ RescanGitleaksReturns \/ GitleaksRaises
    \/ NoToolsEnabled \/ Validate \/ LogMetricsAndReturn
    \/ ScanOverKept

SpecRescan == Init /\ [][NextRescan]_vars

\* scan is straight-line code whose adapter calls return or raise within
\* their timeout, so a scan that has started keeps taking steps
FairSpec == Spec /\ WF_vars(Next)

\* ------------------------------------------ GitleaksScanner._redact_secret
REDACTED == <<"[", "R", "E", "D", "A", "C", "T", "E", "D", "]">>
Ellipsis == <<".", ".", ".">>
SecretChars == {"a", "."}

_redact_secret(s) ==
    IF s = <<>> THEN REDACTED
    ELSE IF Len(s) <= 8 THEN REDACTED
    ELSE SubSeq(s, 1, 4) \o Ellipsis \o SubSeq(s, Len(s) - 3, Len(s))

InitRedact ==
    /\ secret \in SeqUpTo(SecretChars, MaxSecretLen)
    /\ redacted = <<>>
    /\ rpc = "called"
    /\ ConfigIdle /\ ScanIdle /\ ValidatorIdle /\ AdapterIdle /\ AuxIdle

Redact ==
    /\ rpc = "called"
    /\ redacted' = _redact_secret(secret)
    /\ rpc' = "returned"
    /\ UNCHANGED <<secret, validatorVars, configVars, scanVars, adapterVars, auxVars>>

NextRedact == Redact
SpecRedact == InitRedact /\ [][NextRedact]_vars

\* ---------------------------------------------- GitleaksScanner._to_finding
\* str(n) for a non-negative integer n
RECURSIVE IntToStr(_)
IntToStr(n) ==
    LET d == <<"0", "1", "2", "3", "4", "5", "6", "7", "8", "9">>[(n % 10) + 1]
    IN IF n < 10 THEN <<d>> ELSE IntToStr(n \div 10) \o <<d>>

\* json.loads gave something that is not an object (a number, a list)
JsonNumber == [not_a_dict |-> TRUE]
IsDict(x) == "not_a_dict" \notin DOMAIN x

\* "Remove secret from code and rotate credentials. Match: "
RemediationPrefix ==
    <<"R", "e", "m", "o", "v", "e", " ", "s", "e", "c", "r", "e", "t", " ", "f", "r", "o", "m", " ", "c", "o", "d", "e", " ", "a", "n", "d", " ", "r", "o", "t", "a", "t", "e", " ", "c", "r", "e", "d", "e", "n", "t", "i", "a", "l", "s", ".", " ", "M", "a", "t", "c", "h", ":", " ">>

\* the Entropy value of a match, tagged with its JSON type: a number, kept
\* in tenths, or a string that float() rejects
JNum(n) == [num |-> n]
BadNumber == [str |-> "bad"]

\* the result of one call: Returned(finding), Returned(PyNone) when the
\* KeyError/AttributeError handler ran, or the exception that escapes
\* (the format spec .2f applied to a string raises ValueError)
Gitleaks_to_finding(m) ==
    IF ~IsDict(m) THEN Returned(PyNone)
    ELSE
    LET rule_id == Get(m, "RuleID", "")
        file_path == Get(m, "File", "")
        line_num == Get(m, "StartLine", 0)
        secret_ == Get(m, "Secret", <<>>)
        match == Get(m, "Match", <<>>)
        entropy0 == Get(m, "Entropy", JNum(0))
        redacted_secret == _redact_secret(IF secret_ # <<>> THEN secret_ ELSE match)
        code_snippet == IF "Line" \in DOMAIN m THEN _redact_secret(m.Line) ELSE <<>>
        entropy == entropy0.num
    IN IF "num" \notin DOMAIN entropy0
       THEN [kind |-> "raised", exc |-> "ValueError"]
       ELSE Returned(
            [finding |-> <<"Secret detected: ", rule_id>>,
             evidence |-> <<[path |-> file_path,
                             lines |-> <<"L">> \o IntToStr(line_num),
                             why_relevant |-> <<"Gitleaks detected potential secret with entropy ", entropy>>,
                             code_snippet |-> IF code_snippet # <<>> THEN code_snippet ELSE REDACTED]>>,
             confidence |-> IF 70 + entropy < 95 THEN 70 + entropy ELSE 95,
             tool |-> "gitleaks",
             severity |-> "critical",
             rule_id |-> rule_id,
             remediation |-> RemediationPrefix \o redacted_secret])

\* matches whose Line holds the secret, bare or inside an assignment; the
\* secrets have two characters or more and share no run of two characters
\* with the fixed texts of the finding
MatchSecretChars == {"a", "b"}
LinePrefix == <<"k", "e", "y", " ", "=", " ">>
LineSuffix == <<";">>
SecretMatches ==
    {[RuleID |-> "generic-api-key", File |-> "config.py", StartLine |-> 10,
      Secret |-> sec, Match |-> mp \o sec, Line |-> lp \o sec \o ls, Entropy |-> JNum(45)] :
        sec \in SeqUpTo(MatchSecretChars, MaxSecretLen) \ SeqUpTo(MatchSecretChars, 1),
        mp \in {<<>>, LinePrefix}, lp \in {<<>>, LinePrefix}, ls \in {<<>>, LineSuffix}}

InitGitleaksFinding ==
    /\ gl_match \in SecretMatches
    /\ gl_finding = NotCalled
    /\ sg_proc = NotCalled /\ sg_out = NotCalled
    /\ gl_proc = NotCalled /\ gl_out = NotCalled
    /\ ConfigIdle /\ ScanIdle /\ ValidatorIdle /\ RedactIdle /\ AuxIdle

ToFinding ==
    /\ gl_match # NotCalled
    /\ gl_finding = NotCalled
    /\ gl_finding' = Gitleaks_to_finding(gl_match)
    /\ UNCHANGED <<gl_match, sg_proc, sg_out, gl_proc, gl_out>>
    /\ UNCHANGED <<validatorVars, configVars, scanVars, redactVars, auxVars>>

NextGitleaksFinding == ToFinding
SpecGitleaksFinding == InitGitleaksFinding /\ [][NextGitleaksFinding]_vars


\* ---------------------------------------------- SemgrepAnalyzer._to_finding
EmptyDict == <<>>
IsNone(x) == "py_none" \in DOMAIN x

\* str.upper() on the severity strings used here
Upper(s) ==
    CASE s = "error" -> "ERROR"
      [] s = "Warning" -> "WARNING"
      [] s = "info" -> "INFO"
      [] s = "low" -> "LOW"
      [] s = "medium" -> "MEDIUM"
      [] OTHER -> s

severity_map ==
    [s \in {"ERROR", "WARNING", "INFO"} |->
        CASE s = "ERROR" -> "critical" [] s = "WARNING" -> "high" [] s = "INFO" -> "medium"]

\* the words _extract_remediation looks for that occur in check_id.lower(),
\* for the rule ids used here
RuleWords(check_id) ==
    CASE check_id = "python.sql-injection" -> {"injection"}
      [] check_id = "python.lang.pickle.avoid-pickle" -> {"pickle"}
      [] OTHER -> {}

\* _format_rule_name for the rule ids used here
_format_rule_name(rule_id) ==
    CASE rule_id = "python.sql-injection" -> "Python: Sql Injection"
      [] rule_id = "python.lang.pickle.avoid-pickle" -> "Pickle: Avoid Pickle"
      [] rule_id = "generic-rule" -> "Generic Rule"
      [] OTHER -> rule_id

_extract_remediation(extra, check_id) ==
    LET metadata == Get(extra, "metadata", EmptyDict)
        words == RuleWords(check_id)
    IN IF "metadata" \in DOMAIN extra /\ "remediation" \in DOMAIN metadata
           THEN metadata.remediation
       ELSE IF "metadata" \in DOMAIN extra /\ "owasp" \in DOMAIN metadata
           THEN <<"Follow OWASP guidelines: ", metadata.owasp>>
       ELSE IF "metadata" \in DOMAIN extra /\ words \cap {"deserialization", "pickle"} # {}
           THEN <<"Avoid using pickle for deserializing untrusted data.">>
       ELSE IF "metadata" \in DOMAIN extra /\ words \cap {"xss", "jinja2"} # {}
           THEN <<"Use Flask's auto-escaping or manually escape user input.">>
       ELSE IF "metadata" \in DOMAIN extra /\ words \cap {"secrets", "private-key"} # {}
           THEN <<"Remove hardcoded secrets, API keys, or private keys from code.">>
       ELSE IF "metadata" \in DOMAIN extra /\ "injection" \in words
           THEN <<"Use parameterized queries or prepared statements.">>
       ELSE <<"Review and fix the security issue identified by rule: ", check_id>>

\* faulty variant: a range is written even when start and end are equal
SemgrepLinesStr_alwaysRange(start_line, end_line) ==
    <<"L">> \o IntToStr(start_line) \o <<"-", "L">> \o IntToStr(end_line)

\* the evidence "lines" string built from start and end line
SemgrepLinesStr(start_line, end_line) ==
    IF start_line = end_line
    THEN <<"L">> \o IntToStr(start_line)
    ELSE <<"L">> \o IntToStr(start_line) \o <<"-", "L">> \o IntToStr(end_line)

\* faulty variant: an unknown severity falls back to info
MapSeverity_defaultInfo(severity) ==
    IF Upper(severity) \in DOMAIN severity_map THEN severity_map[Upper(severity)] ELSE "info"

\* faulty variant: the level is looked up without upper()
MapSeverity_caseSensitive(severity) ==
    IF severity \in DOMAIN severity_map THEN severity_map[severity] ELSE "medium"

\* severity_map.get(severity.upper(), "medium")
MapSeverity(severity) ==
    IF Upper(severity) \in DOMAIN severity_map THEN severity_map[Upper(severity)] ELSE "medium"

\* the result of one call: Returned(finding), Returned(PyNone) when the
\* KeyError/AttributeError handler ran, or the exception that escapes
\* ("metadata" in None raises TypeError).  extra["lines"] is kept as the
\* sequence of its text lines.
Semgrep_to_finding(r) ==
    IF ~IsDict(r) THEN Returned(PyNone)
    ELSE
    LET check_id == Get(r, "check_id", "")
        path == Get(r, "path", "")
        start == Get(r, "start", EmptyDict)
        end == Get(r, "end", EmptyDict)
        extra == Get(r, "extra", EmptyDict)
        message0 == Get(r, "message", "")
    IN IF message0 = "" /\ IsNone(extra) THEN [kind |-> "raised", exc |-> "TypeError"]
       ELSE IF IsNone(extra) THEN Returned(PyNone)
       ELSE
       LET message1 == IF message0 = "" /\ "metadata" \in DOMAIN extra
                       THEN Get(extra.metadata, "description", "") ELSE message0
           message == IF message1 = "" THEN _format_rule_name(check_id) ELSE message1
           severity == Get(extra, "severity", "medium")
           start_line == Get(start, "line", 0)
           end_line == Get(end, "line", start_line)
           code_snippet == IF "lines" \in DOMAIN extra
                           THEN SubSeq(extra.lines, 1, IF Len(extra.lines) < 3 THEN Len(extra.lines) ELSE 3)
                           ELSE <<>>
           why_relevant ==
               IF "metadata" \in DOMAIN extra
               THEN IF Get(extra.metadata, "cwe", "") # ""
                    THEN <<"CWE-", extra.metadata.cwe, ": ",
                           Get(extra.metadata, "cwe_description", "Security vulnerability detected")>>
                    ELSE <<Get(extra.metadata, "description",
                               "Semgrep rule " \o check_id \o " detected this security issue")>>
               ELSE <<"Semgrep security rule detected: ", check_id>>
       IN IF severity = None THEN Returned(PyNone)
          ELSE Returned(
            [finding |-> message,
             evidence |-> <<[path |-> path,
                             lines |-> SemgrepLinesStr(start_line, end_line),
                             why_relevant |-> why_relevant,
                             code_snippet |-> code_snippet]>>,
             confidence |-> 80,
             tool |-> "semgrep",
             severity |-> MapSeverity(severity),
             rule_id |-> check_id,
             remediation |-> _extract_remediation(extra, check_id)])

\* ----------------------------------- SemgrepAnalyzer.analyze, GitleaksScanner.scan
\* subprocess.run either raises or completes with a return code and stdout
ProcRaised(exc) == [kind |-> "raised", exc |-> exc]
Completed(returncode, stdout) == [kind |-> "completed", returncode |-> returncode, stdout |-> stdout]

\* a piece of output text: whitespace only, not JSON, or the JSON text of a value
BlankText == [text |-> "blank"]
GarbageText == [text |-> "garbage"]
JsonText(v) == [text |-> "json", value |-> v]

\* str.strip() leaves nothing
IsBlank(t) == t.text = "blank"

\* json.loads(text)
JsonLoads(t) ==
    IF t.text = "json" THEN Returned(t.value) ELSE ProcRaised("JSONDecodeError")

\* the for loop of analyze over data["results"]
RECURSIVE SemgrepLoop(_, _)
SemgrepLoop(results, acc) ==
    IF results = <<>> THEN Returned(acc)
    ELSE LET finding == Semgrep_to_finding(Head(results))
         IN IF finding.kind = "raised" THEN finding
            ELSE IF IsNone(finding.value) THEN SemgrepLoop(Tail(results), acc)
            ELSE SemgrepLoop(Tail(results), Append(acc, finding.value))

\* the body of the try block of analyze
SemgrepTry(proc) ==
    IF proc.kind = "raised" THEN proc
    ELSE IF proc.returncode # 0 /\ IsBlank(proc.stdout) THEN Returned(<<>>)
    ELSE LET data == JsonLoads(proc.stdout)
         IN IF data.kind = "raised" THEN Returned(<<>>)
            ELSE IF ~IsDict(data.value) THEN ProcRaised("AttributeError")
            ELSE SemgrepLoop(Get(data.value, "results", <<>>), <<>>)

\* faulty variant: the catch-all except Exception clause is missing
AdapterExcept_noCatchAll(r) ==
    IF r.kind = "raised" /\ r.exc \in {"TimeoutExpired", "FileNotFoundError"}
    THEN Returned(<<>>) ELSE r

\* the except clauses of analyze and of scan: TimeoutExpired,
\* FileNotFoundError, then any Exception, each returning []
AdapterExcept(r) ==
    IF r.kind = "raised" /\ r.exc = "TimeoutExpired" THEN Returned(<<>>)
    ELSE IF r.kind = "raised" /\ r.exc = "FileNotFoundError" THEN Returned(<<>>)
    ELSE IF r.kind = "raised" THEN Returned(<<>>)
    ELSE r

analyze(proc) == AdapterExcept(SemgrepTry(proc))

\* the for loop of scan over output.split("\n")
RECURSIVE GitleaksLoop(_, _)
GitleaksLoop(lines, acc) ==
    IF lines = <<>> THEN Returned(acc)
    ELSE IF IsBlank(Head(lines)) THEN GitleaksLoop(Tail(lines), acc)
    ELSE LET data == JsonLoads(Head(lines))
         IN IF data.kind = "raised" THEN data
            ELSE LET finding == Gitleaks_to_finding(data.value)
                 IN IF finding.kind = "raised" THEN finding
                    ELSE IF IsNone(finding.value) THEN GitleaksLoop(Tail(lines), acc)
                    ELSE GitleaksLoop(Tail(lines), Append(acc, finding.value))

\* faulty variant: a line that does not parse is skipped and the findings
\* of the other lines are returned
GitleaksTry_skipsBadLines(proc) ==
    IF proc.kind = "raised" THEN proc
    ELSE IF proc.returncode = 2 THEN Returned(<<>>)
    ELSE IF \A i \in 1..Len(proc.stdout) : IsBlank(proc.stdout[i]) THEN Returned(<<>>)
    ELSE GitleaksLoop(SelectSeq(proc.stdout, LAMBDA t : t.text # "garbage"), <<>>)

\* the body of the try block of scan; stdout is kept as its text lines
GitleaksTry(proc) ==
    IF proc.kind = "raised" THEN proc
    ELSE IF proc.returncode = 2 THEN Returned(<<>>)
    ELSE IF \A i \in 1..Len(proc.stdout) : IsBlank(proc.stdout[i]) THEN Returned(<<>>)
    ELSE LET r == GitleaksLoop(proc.stdout, <<>>)
         IN IF r.kind = "raised" /\ r.exc = "JSONDecodeError" THEN Returned(<<>>)
            ELSE r

Gitleaks_scan(proc) == AdapterExcept(GitleaksTry(proc))

\* native Semgrep results
SgResult(check_id, s, e, extra) ==
    [check_id |-> check_id, path |-> "app.py", start |-> [line |-> s], end |-> [line |-> e],
     message |-> "SQL injection vulnerability", extra |-> extra]
R_error == SgResult("python.sql-injection", 45, 47, [severity |-> "ERROR", lines |-> <<"q = f()">>])
R_errorLower == SgResult("python.sql-injection", 10, 10, [severity |-> "error"])
R_warning == SgResult("python.lang.pickle.avoid-pickle", 7, 7,
                      [severity |-> "Warning", metadata |-> [cwe |-> "502"]])
R_info == SgResult("generic-rule", 0, 3, [severity |-> "info", metadata |-> [owasp |-> "A1"]])
R_unknown == SgResult("generic-rule", 12, 12, [severity |-> "low"])
R_noSeverity == [check_id |-> "generic-rule", path |-> "app.py", start |-> [line |-> 5],
                 extra |-> [metadata |-> [description |-> "d"]]]
R_nullSeverity == SgResult("generic-rule", 1, 1, [severity |-> None])
R_nullExtra == [check_id |-> "generic-rule", path |-> "app.py", extra |-> PyNone]
SemgrepResults == {R_error, R_errorLower, R_warning, R_info, R_unknown, R_noSeverity,
                   R_nullSeverity, R_nullExtra, JsonNumber}

\* native Gitleaks matches
M_key == [RuleID |-> "generic-api-key", File |-> "config.py", StartLine |-> 10,
          Secret |-> <<"a", "b", "a", "b", "a", "b", "a", "b", "a", "b">>,
          Match |-> <<"k", "=", "a", "b", "a", "b", "a", "b", "a", "b", "a", "b">>,
          Line |-> <<"k", "=", "a", "b", "a", "b", "a", "b", "a", "b", "a", "b">>,
          Entropy |-> JNum(45)]
M_short == [RuleID |-> "pin", File |-> "a.py", Secret |-> <<"a", "b">>, Entropy |-> JNum(10)]
M_onlyMatch == [RuleID |-> "pin", Match |-> <<"a", "b", "b", "a">>, StartLine |-> 0]
M_badEntropy == [RuleID |-> "pin", File |-> "a.py", StartLine |-> 3, Entropy |-> BadNumber]
GitleaksMatches == {M_key, M_short, M_onlyMatch, M_badEntropy}

SemgrepProcs ==
    {ProcRaised(e) : e \in {"TimeoutExpired", "FileNotFoundError", "PermissionError"}}
    \cup {Completed(rc, out) :
            rc \in {0, 1},
            out \in {BlankText, GarbageText, JsonText(JsonNumber), JsonText([errors |-> <<>>])}
                    \cup {JsonText([results |-> rs]) : rs \in SeqUpTo(SemgrepResults, MaxNative)}}

GitleaksProcs ==
    {ProcRaised(e) : e \in {"TimeoutExpired", "FileNotFoundError", "PermissionError"}}
    \cup {Completed(rc, out) :
            rc \in {0, 1, 2},
            out \in SeqUpTo({BlankText, GarbageText, JsonText(JsonNumber)}
                            \cup {JsonText(m) : m \in GitleaksMatches}, MaxNative)}

\* one adapter call per behaviour: either analyze or scan is about to run
InitAdapters ==
    /\ \/ sg_proc \in SemgrepProcs /\ gl_proc = NotCalled
       \/ gl_proc \in GitleaksProcs /\ sg_proc = NotCalled
    /\ sg_out = NotCalled /\ gl_out = NotCalled
    /\ gl_match = NotCalled /\ gl_finding = NotCalled
    /\ ConfigIdle /\ ScanIdle /\ ValidatorIdle /\ RedactIdle /\ AuxIdle

SemgrepAnalyze ==
    /\ sg_proc # NotCalled /\ sg_out = NotCalled
    /\ sg_out' = analyze(sg_proc)
    /\ UNCHANGED <<gl_match, gl_finding, sg_proc, gl_proc, gl_out>>
    /\ UNCHANGED <<validatorVars, configVars, scanVars, redactVars, auxVars>>

GitleaksScan ==
    /\ gl_proc # NotCalled /\ gl_out = NotCalled
    /\ gl_out' = Gitleaks_scan(gl_proc)
    /\ UNCHANGED <<gl_match, gl_finding, sg_proc, sg_out, gl_proc>>
    /\ UNCHANGED <<validatorVars, configVars, scanVars, redactVars, auxVars>>

NextAdapters == SemgrepAnalyze \/ GitleaksScan
SpecAdapters == InitAdapters /\ [][NextAdapters]_vars

\* ------------------------------------- adapter finding handed to the sorter
\* one native result or match per run, its line numbers up to MaxLine
LineResults ==
    {SgResult("generic-rule", st, en, [severity |-> "INFO"]) : st \in 0..MaxLine, en \in 0..MaxLine}
LineMatches ==
    {[RuleID |-> "pin", File |-> "a.py", StartLine |-> n, Secret |-> <<"a", "b">>,
      Entropy |-> JNum(10)] : n \in 0..MaxLine}

InitRoundTrip ==
    /\ \/ /\ sg_proc \in {Completed(0, JsonText([results |-> <<r>>])) : r \in LineResults}
          /\ gl_proc = NotCalled
       \/ /\ gl_proc \in {Completed(1, <<JsonText(m)>>) : m \in LineMatches}
          /\ sg_proc = NotCalled
    /\ sg_out = NotCalled /\ gl_out = NotCalled
    /\ gl_match = NotCalled /\ gl_finding = NotCalled
    /\ ConfigIdle /\ ScanIdle /\ ValidatorIdle /\ RedactIdle /\ AuxIdle

\* the adapter's list as the one that is not empty
AdapterFindings ==
    IF sg_out # NotCalled THEN sg_out.value ELSE gl_out.value

\* _sort_by_severity computes the sort key of the finding the adapter
\* returned
KeyOfAdapterFinding ==
    /\ sg_out # NotCalled \/ gl_out # NotCalled
    /\ key_out = NotCalled
    /\ AdapterFindings # <<>>
    /\ key_in' = AdapterFindings[1]
    /\ key_out' = Returned(sort_key(key_in'))
    /\ UNCHANGED <<prev, cliVars, sarifVars, initVars>>
    /\ UNCHANGED <<validatorVars, configVars, scanVars, redactVars, adapterVars>>

NextRoundTrip == SemgrepAnalyze \/ GitleaksScan \/ KeyOfAdapterFinding
SpecRoundTrip == InitRoundTrip /\ [][NextRoundTrip]_vars

\* ------------------------------------------------------------- cli.scan
\* sys.exit(code)
Exited(code) == [kind |-> "exit", code |-> code]

valid_formats == {"json", "sarif", "html", "pdf"}
CliFormats == {"json", "JSON", "sarif", "html", "pdf", "xml"}
\* the lists scanner.scan returns to the command
CliScanResults == {<<>>, <<F_high_a2>>, <<F_crit_a5>>, <<F_crit_a5, F_high_a2>>}

\* any(f.get("severity") == "critical" for f in findings)
AnyCritical(fs) == \E i \in 1..Len(fs) : Get(fs[i], "severity", None) = "critical"

\* where the formatted output goes: the --output file, stdout for json,
\* or the file findings.<format>
OutputTarget(output, fmt) ==
    IF output # None THEN <<"file", output>>
    ELSE IF fmt = "json" THEN <<"stdout", "">>
    ELSE <<"file", "findings.", fmt>>

InitCli ==
    /\ cli_format \in CliFormats
    /\ cli_output \in {None, "out.file"}
    /\ cli_fail_on_critical \in BOOLEAN
    /\ cli_findings = NotCalled /\ cli_pc = "called" /\ cli_written = <<>>
    /\ cli_exit = NotCalled
    /\ KeyIdle /\ prev = NotCalled /\ SarifIdle /\ InitIdle
    /\ ConfigIdle /\ ScanIdle /\ ValidatorIdle /\ RedactIdle /\ AdapterIdle

CliFrame ==
    /\ UNCHANGED <<cli_format, cli_output, cli_fail_on_critical>>
    /\ UNCHANGED <<keyVars, prev, sarifVars, initVars>>
    /\ UNCHANGED <<validatorVars, configVars, scanVars, redactVars, adapterVars>>

\* the format is not one of the four: sys.exit(1)
CliInvalidFormat ==
    /\ cli_pc = "called"
    /\ Lower(cli_format) \notin valid_formats
    /\ cli_exit' = Exited(1) /\ cli_pc' = "error"
    /\ UNCHANGED <<cli_findings, cli_written>>
    /\ CliFrame

\* the repository path does not exist: sys.exit(1)
CliMissingPath ==
    /\ cli_pc = "called"
    /\ Lower(cli_format) \in valid_formats
    /\ cli_exit' = Exited(1) /\ cli_pc' = "error"
    /\ UNCHANGED <<cli_findings, cli_written>>
    /\ CliFrame

\* SecurityScanner(...) or scanner.scan(...) raises: KeyboardInterrupt
\* exits with 130, any other exception with 1
CliScanRaises ==
    /\ cli_pc = "called"
    /\ Lower(cli_format) \in valid_formats
    /\ \E exc \in {"KeyboardInterrupt", "Exception"} :
          cli_exit' = Exited(IF exc = "KeyboardInterrupt" THEN 130 ELSE 1)
    /\ cli_pc' = "error"
    /\ UNCHANGED <<cli_findings, cli_written>>
    /\ CliFrame

\* faulty variant: critical findings end the command before the output
CliScanReturns_exitsEarly ==
    /\ cli_pc = "called"
    /\ Lower(cli_format) \in valid_formats
    /\ \E fs \in CliScanResults :
          /\ cli_findings' = Returned(fs)
          /\ IF AnyCritical(fs) /\ cli_fail_on_critical
             THEN cli_exit' = Exited(1) /\ cli_pc' = "done"
             ELSE cli_exit' = cli_exit /\ cli_pc' = "output"
    /\ UNCHANGED cli_written
    /\ CliFrame

\* findings = scanner.scan(repo_path_obj), and the counts are printed
CliScanReturns ==
    /\ cli_pc = "called"
    /\ Lower(cli_format) \in valid_formats
    /\ \E fs \in CliScanResults : cli_findings' = Returned(fs)
    /\ cli_pc' = "output"
    /\ UNCHANGED <<cli_written, cli_exit>>
    /\ CliFrame

\* formatter.save_to_file(...) or console.print(formatter.to_json(...))
CliWriteOutput ==
    /\ cli_pc = "output"
    /\ cli_written' = Append(cli_written,
            [to |-> OutputTarget(cli_output, Lower(cli_format)),
             format |-> Lower(cli_format),
             findings |-> cli_findings.value])
    /\ cli_pc' = "exit_code"
    /\ UNCHANGED <<cli_findings, cli_exit>>
    /\ CliFrame

\* writing the output raises (the file cannot be written, reportlab is
\* missing for pdf): except Exception, sys.exit(1)
CliWriteRaises ==
    /\ cli_pc = "output"
    /\ cli_exit' = Exited(1) /\ cli_pc' = "error"
    /\ UNCHANGED <<cli_findings, cli_written>>
    /\ CliFrame

\* the exit code is decided from the findings and --fail-on-critical
CliExit ==
    /\ cli_pc = "exit_code"
    /\ cli_exit' = Exited(IF AnyCritical(cli_findings.value)
                          THEN (IF cli_fail_on_critical THEN 1 ELSE 0)
                          ELSE 0)
    /\ cli_pc' = "done"
    /\ UNCHANGED <<cli_findings, cli_written>>
    /\ CliFrame

NextCli ==
    \/ CliInvalidFormat \/ CliMissingPath \/ CliScanRaises \/ CliScanReturns
    \/ CliWriteOutput \/ CliWriteRaises \/ CliExit

SpecCli == InitCli /\ [][NextCli]_vars

\* ------------------------------------------- OutputFormatter.to_sarif
\* severity_map of to_sarif
sarif_severity_map ==
    [sev \in SeverityEnum |->
        CASE sev = "critical" -> "error" [] sev = "high" -> "error"
          [] sev = "medium" -> "warning" [] sev = "low" -> "note" [] sev = "info" -> "note"]

\* rule_id.split(".")[-1].replace("-", " ").title() for the rule ids used here
TitleOf(rule_id) ==
    CASE rule_id = "r1" -> "R1" [] rule_id = "r2" -> "R2" [] rule_id = "r3" -> "R3"
      [] rule_id = "unknown" -> "Unknown" [] OTHER -> rule_id

SarifRuleId(finding) == Get(finding, "rule_id", "unknown")
SarifSeverity(finding) == Lower(Get(finding, "severity", "medium"))
SarifLevel(finding) ==
    IF SarifSeverity(finding) \in DOMAIN sarif_severity_map
    THEN sarif_severity_map[SarifSeverity(finding)] ELSE "warning"

\* the human-readable message of a finding
FindingMessage(finding) ==
    LET finding_message == Get(finding, "finding", "")
    IN IF finding_message = "" \/ finding_message = SarifRuleId(finding)
       THEN TitleOf(SarifRuleId(finding)) ELSE finding_message

\* the entry of rules_dict made from a finding; texts put together from
\* parts are kept as the sequence of the parts
SarifRule(finding) ==
    LET rule_id == SarifRuleId(finding)
        finding_message == FindingMessage(finding)
        remediation == Get(finding, "remediation", "")
    IN [id |-> rule_id,
        name |-> finding_message,
        shortDescription |-> finding_message,
        help |-> IF remediation = ""
                 THEN <<"Review and fix the security issue: ", finding_message>>
                 ELSE <<remediation>>,
        tags |-> <<Get(finding, "tool", "unknown"), SarifSeverity(finding)>>,
        precision |-> IF Get(finding, "confidence", 50) > 70 THEN "high" ELSE "medium"]

\* faulty variant: every finding adds a rule, known id or not
RECURSIVE SarifRules_everyFinding(_, _)
SarifRules_everyFinding(fs, rules) ==
    IF fs = <<>> THEN rules
    ELSE SarifRules_everyFinding(Tail(fs), Append(rules, SarifRule(Head(fs))))

\* rules_dict after the loop, in insertion order: a finding adds a rule
\* only if its rule_id is not in the dict yet
RECURSIVE SarifRules(_, _)
SarifRules(fs, rules) ==
    IF fs = <<>> THEN rules
    ELSE IF \E i \in 1..Len(rules) : rules[i].id = SarifRuleId(Head(fs))
         THEN SarifRules(Tail(fs), rules)
         ELSE SarifRules(Tail(fs), Append(rules, SarifRule(Head(fs))))

\* str.split(sep)[1] for a one-character sep that occurs in s
RECURSIVE SplitSecond(_, _)
SplitSecond(s, sep) ==
    IF s = <<>> THEN <<>>
    ELSE IF Head(s) = sep THEN SplitFirst(Tail(s), sep)
    ELSE SplitSecond(Tail(s), sep)

\* the region of one evidence item: startLine, and endLine when the
\* lines string has a second part that parses, is not 0 and differs
SarifRegion(evidence) ==
    LET lines_str == Get(evidence, "lines", <<>>)
        code_snippet == Get(evidence, "code_snippet", "")
        stripped == RemoveChar(lines_str, "L")
        first == SplitFirst(stripped, "-")
        has_second == \E i \in 1..Len(stripped) : stripped[i] = "-"
        second == SplitSecond(stripped, "-")
        line_num == IF IntParses(first) THEN IntOf(first) ELSE 0
        has_end == /\ IntParses(first) /\ has_second /\ IntParses(second)
                   /\ IntOf(second) # 0 /\ IntOf(second) # line_num
    IN [startLine |-> line_num,
        endLine |-> IF has_end THEN <<IntOf(second)>> ELSE <<>>,
        snippet |-> IF code_snippet # "" THEN <<code_snippet>> ELSE <<>>]

SarifResult(finding, evidence) ==
    LET finding_message == FindingMessage(finding)
        why_relevant == Get(evidence, "why_relevant", "")
    IN [ruleId |-> SarifRuleId(finding),
        level |-> SarifLevel(finding),
        message |-> IF why_relevant # "" /\ why_relevant # finding_message
                    THEN <<finding_message, ". ", why_relevant>>
                    ELSE <<finding_message>>,
        uri |-> Get(evidence, "path", ""),
        region |-> SarifRegion(evidence),
        tool |-> Get(finding, "tool", "unknown"),
        confidence |-> Get(finding, "confidence", 50)]

\* the results of one finding: one per evidence item
SarifResultsOf(finding) ==
    LET evidence_list == Get(finding, "evidence", <<>>)
    IN [i \in 1..Len(evidence_list) |-> SarifResult(finding, evidence_list[i])]

RECURSIVE SarifResults(_)
SarifResults(fs) ==
    IF fs = <<>> THEN <<>>
    ELSE SarifResultsOf(Head(fs)) \o SarifResults(Tail(fs))

\* the document of to_sarif: the rules of the driver and the results of
\* the single run
to_sarif(fs) ==
    [version |-> "2.1.0", rules |-> SarifRules(fs, <<>>), results |-> SarifResults(fs)]

\* a finding with two evidence items, the second without lines
S_med_two == [finding |-> "g", evidence |-> <<Ev("a.py", L(<<"5">>)), [path |-> "b.py"]>>,
              confidence |-> 60, tool |-> "semgrep", severity |-> "medium", rule_id |-> "r3"]
SarifRecords == {F_crit_a5, F_high_a5, F_high_a10, F_low_b5, F_med_bad, F_info_noev, S_med_two}

InitSarif ==
    /\ sarif_in \in SeqUpTo(SarifRecords, MaxBatch)
    /\ sarif_out = NotCalled
    /\ KeyIdle /\ prev = NotCalled /\ CliIdle /\ InitIdle
    /\ ConfigIdle /\ ScanIdle /\ ValidatorIdle /\ RedactIdle /\ AdapterIdle

\* one call to_sarif(findings)
ToSarif ==
    /\ sarif_out = NotCalled
    /\ sarif_out' = Returned(to_sarif(sarif_in))
    /\ UNCHANGED <<sarif_in, keyVars, prev, cliVars, initVars>>
    /\ UNCHANGED <<validatorVars, configVars, scanVars, redactVars, adapterVars>>

NextSarif == ToSarif
SpecSarif == InitSarif /\ [][NextSarif]_vars

\* ================================================================ claims
Range(s) == {s[i] : i \in 1..Len(s)}
SeverityRank(f) == severity_order[f.severity]
LineNumber(f) == sort_key(f)[2]
ValidIndices(fs) == {i \in 1..Len(fs) : SchemaValid(fs[i])}
\* the earliest valid record of fs that has the key k
FirstWithKey(fs, k) ==
    fs[CHOOSE i \in ValidIndices(fs) :
        /\ DedupKey(fs[i]) = k
        /\ \A j \in ValidIndices(fs) : DedupKey(fs[j]) = k => i <= j]

\* C1: a record that fails schema validation is never in the list
\* validate_all returns, whatever the other records of the batch are.
C1_ValidationGate ==
    vpc = "returned" =>
        /\ \A i \in 1..Len(sorted_findings) : SchemaValid(sorted_findings[i])
        /\ \A i \in 1..Len(findings) :
              ~SchemaValid(findings[i]) => findings[i] \notin Range(sorted_findings)

\* a batch with a rejected record (no severity) ahead of a valid record of
\* the same dedup key has been processed, and the valid one came through
C1_Witness ==
    /\ vpc = "returned"
    /\ \E i, j \in 1..Len(findings) :
        /\ i < j
        /\ "severity" \notin DOMAIN findings[i]
        /\ SchemaValid(findings[j])
        /\ DedupKey(findings[i]) = DedupKey(findings[j])
        /\ findings[j] \in Range(sorted_findings)

\* C2: among the valid records sharing a dedup key exactly one is returned,
\* and it is, field for field, the earliest of them in the input.
C2_DedupFirstSeen ==
    vpc = "returned" =>
        /\ \A i \in ValidIndices(findings) :
              \E j \in 1..Len(sorted_findings) :
                  /\ DedupKey(sorted_findings[j]) = DedupKey(findings[i])
                  /\ sorted_findings[j] = FirstWithKey(findings, DedupKey(findings[i]))
        /\ \A i, j \in 1..Len(sorted_findings) :
              DedupKey(sorted_findings[i]) = DedupKey(sorted_findings[j]) => i = j

\* two valid records of one key that differ in tool, severity and
\* remediation were in the batch, the later one the more severe
C2_Witness ==
    /\ vpc = "returned"
    /\ \E i, j \in ValidIndices(findings) :
        /\ i < j
        /\ DedupKey(findings[i]) = DedupKey(findings[j])
        /\ findings[i].tool # findings[j].tool
        /\ findings[i].remediation # findings[j].remediation
        /\ SeverityRank(findings[j]) < SeverityRank(findings[i])
        /\ findings[i] \in Range(sorted_findings)
        /\ findings[j] \notin Range(sorted_findings)

\* C3: in the returned list severity ranks never decrease, and between
\* neighbours of equal rank the parsed line number never decreases.
C3_SeverityOrdering ==
    vpc = "returned" =>
        \A i \in 1..(Len(sorted_findings) - 1) :
            LET a == sorted_findings[i]
                b == sorted_findings[i + 1]
            IN /\ SeverityRank(a) <= SeverityRank(b)
               /\ SeverityRank(a) = SeverityRank(b) => LineNumber(a) <= LineNumber(b)

\* the sort moved something: two neighbours of equal rank stand in line
\* order (L2 ahead of L10-L12) though they arrived the other way round,
\* and a more severe record overtook a less severe one
C3_Witness ==
    /\ vpc = "returned"
    /\ Len(sorted_findings) = 3
    /\ \E i \in 1..2 :
        /\ SeverityRank(sorted_findings[i]) = SeverityRank(sorted_findings[i + 1])
        /\ LineNumber(sorted_findings[i]) = 2
        /\ LineNumber(sorted_findings[i + 1]) = 10
    /\ deduplicated[1] = sorted_findings[3]
    /\ SeverityRank(sorted_findings[1]) < SeverityRank(sorted_findings[3])

\* C7: validate_all keeps exactly the records that validate, each decided
\* on its own, in their input order, and a batch of rejected records only
\* gives the empty list.
C7_BatchValidation ==
    vpc = "returned" =>
        LET idx == ValidIndices(findings)
        IN /\ Len(valid_findings) = Cardinality(idx)
           /\ \E m \in [1..Len(valid_findings) -> idx] :
                 /\ \A a, b \in 1..Len(valid_findings) : a < b => m[a] < m[b]
                 /\ \A a \in 1..Len(valid_findings) : valid_findings[a] = findings[m[a]]
           /\ idx = {} => sorted_findings = <<>>

\* a rejected record stood between two valid ones and both came through
C7_Witness ==
    /\ vpc = "returned"
    /\ Len(findings) = 3
    /\ SchemaValid(findings[1]) /\ ~SchemaValid(findings[2]) /\ SchemaValid(findings[3])
    /\ valid_findings = <<findings[1], findings[3]>>
    /\ findings[1] # findings[3]

\* ------------------------------------------------- claims on confidence
WithField(f, k, v) == [x \in DOMAIN f \cup {k} |-> IF x = k THEN v ELSE f[x]]
WithoutField(f, k) == [x \in DOMAIN f \ {k} |-> f[x]]

\* the input positions of the records validate_all returns, in the order
\* it returns them: each record carries its position in a field that
\* validation, the key and the ordering never read
Tagged(fs) == [i \in 1..Len(fs) |-> WithField(fs[i], "input_position", i)]
KeptPositions(fs) ==
    LET out == validate_all(Tagged(fs))
    IN [j \in 1..Len(out) |-> out[j].input_position]

ConfidenceInRange(f) == "confidence" \in DOMAIN f /\ f.confidence \in 0..100
ConfidenceValues == {0, 100}
\* fs with the confidence of every record that has one in range set anew
Reassigned(fs, c) ==
    [i \in 1..Len(fs) |->
        IF ConfidenceInRange(fs[i]) THEN WithField(fs[i], "confidence", c[i]) ELSE fs[i]]

\* one record with its confidence taken away or given another value
ConfidenceVariant(f, how) ==
    CASE how = "absent" -> WithoutField(f, "confidence")
      [] how = "zero" -> WithField(f, "confidence", 0)
      [] how = "one" -> WithField(f, "confidence", 100)
      [] how = "out_of_range" -> WithField(f, "confidence", 150)

\* C15 as stated: two batches that differ only in the presence or value
\* of confidence fields have the same input positions kept, in the same
\* order.
C15_ConfidenceNonInterfering ==
    vpc = "returned" =>
        \A i \in 1..Len(findings) :
            \A how \in {"absent", "zero", "one", "out_of_range"} :
                KeptPositions([findings EXCEPT ![i] = ConfidenceVariant(findings[i], how)])
                    = KeptPositions(findings)

\* C15 amended: two batches that differ only in the value of confidence
\* fields, present and within [0, 1] on both sides, have the same input
\* positions kept, in the same order.
C15_ConfidenceValueNonInterfering ==
    vpc = "returned" =>
        \A c \in [1..Len(findings) -> ConfidenceValues] :
            KeptPositions(Reassigned(findings, c)) = KeptPositions(findings)

\* validate_all dropped a duplicate and reordered the rest, and the same
\* positions come back when the duplicates get different confidences
C15_Witness ==
    /\ vpc = "returned"
    /\ Len(findings) = 3 /\ Len(sorted_findings) = 2
    /\ \A i \in 1..3 : SchemaValid(findings[i])
    /\ DedupKey(findings[1]) = DedupKey(findings[2])
    /\ KeptPositions(findings) = <<3, 1>>
    /\ KeptPositions(Reassigned(findings, <<0, 100, 0>>)) = <<3, 1>>

\* ------------------------------------------------------- claims on scan
ListOf(out) == IF out.kind = "returned" THEN out.value ELSE <<>>
InCalls(name) == \E i \in 1..Len(calls) : calls[i] = name
BothEnabled == enable_semgrep /\ enable_gitleaks

\* C4: strict mode off, both adapters enabled: when one adapter raises the
\* other is still invoked, the scan completes, and it returns validate_all
\* of the other adapter's records alone.
C4_PartialFailureIsolation ==
    (~strict_validation /\ BothEnabled) =>
        /\ semgrep_out = Raised =>
              /\ pc # "failed"
              /\ pc \in {"check", "metrics", "complete"} =>
                    gitleaks_out # NotCalled /\ InCalls("gitleaks.scan")
              /\ pc = "complete" => result = Returned(validate_all(ListOf(gitleaks_out)))
        /\ gitleaks_out = Raised =>
              /\ pc # "failed"
              /\ InCalls("semgrep.analyze")
              /\ pc = "complete" => result = Returned(validate_all(ListOf(semgrep_out)))

\* Semgrep raised, Gitleaks then returned records and they are the result
C4_Witness ==
    /\ ~strict_validation /\ BothEnabled
    /\ pc = "complete"
    /\ semgrep_out = Raised
    /\ gitleaks_out.kind = "returned"
    /\ Len(gitleaks_out.value) = 2
    /\ result.kind = "returned" /\ Len(result.value) >= 1

\* C5: in strict mode an adapter exception ends the scan in Failed: nothing
\* is returned (collected findings included) and no adapter, validation or
\* metrics call follows the failing call.
C5_StrictFatal ==
    strict_validation =>
        /\ semgrep_out = Raised =>
              /\ pc = "failed" /\ result = NotCalled
              /\ gitleaks_out = NotCalled
              /\ calls = <<"semgrep.analyze">>
        /\ gitleaks_out = Raised =>
              /\ pc = "failed" /\ result = NotCalled
              /\ calls[Len(calls)] = "gitleaks.scan"
              /\ ~InCalls("validate_all") /\ vpc = "idle"

\* Gitleaks raised in strict mode after Semgrep had delivered findings
C5_Witness ==
    /\ strict_validation
    /\ pc = "failed"
    /\ gitleaks_out = Raised
    /\ all_findings # <<>>
    /\ result = NotCalled

\* C6: a scan that has started ends in Complete (a list is returned) or in
\* Failed (it raised); Failed occurs in strict mode only, and a list is
\* returned exactly in Complete.
C6_ScanEnds ==
    /\ (pc \in {"semgrep", "gitleaks", "check", "metrics"}) ~> (pc \in {"complete", "failed"})
    /\ [](pc = "failed" => strict_validation /\ result = NotCalled)
    /\ []((pc = "complete") <=> (result.kind = "returned"))

\* strict mode off, both adapters raised, and the scan still returned a list
C6_Witness ==
    /\ ~strict_validation
    /\ pc = "complete"
    /\ semgrep_out = Raised /\ gitleaks_out = Raised
    /\ result = Returned(<<>>)

\* C8: with both adapters disabled (by their flags or by the kill switch) a
\* scan of an existing path returns the empty list and calls no adapter, no
\* validation and no metrics; it never fails.
C8_AllDisabledShortCircuit ==
    /\ kill_switch => ~enable_semgrep /\ ~enable_gitleaks
    /\ (~enable_semgrep /\ ~enable_gitleaks) =>
          /\ calls = <<>>
          /\ vpc = "idle"
          /\ pc \in {"idle", "semgrep", "gitleaks", "check", "complete"}
          /\ pc = "complete" => result = Returned(<<>>)

\* strict mode on, kill switch off, both flags false: the scan went through
\* the flag check and returned
C8_Witness ==
    /\ ~enable_semgrep /\ ~enable_gitleaks /\ strict_validation
    /\ pc = "complete"
    /\ result = Returned(<<>>)

\* C9: a disabled adapter is never called, and with exactly one adapter
\* enabled the result is validate_all of that adapter's records.
C9_DisabledNeverInvoked ==
    /\ ~enable_gitleaks => gitleaks_out = NotCalled /\ ~InCalls("gitleaks.scan")
    /\ ~enable_semgrep => semgrep_out = NotCalled /\ ~InCalls("semgrep.analyze")
    /\ (pc = "complete" /\ enable_semgrep /\ ~enable_gitleaks /\ semgrep_out # NotCalled) =>
          result = Returned(validate_all(ListOf(semgrep_out)))
    /\ (pc = "complete" /\ enable_gitleaks /\ ~enable_semgrep /\ gitleaks_out # NotCalled) =>
          result = Returned(validate_all(ListOf(gitleaks_out)))

\* Semgrep enabled, Gitleaks disabled, Semgrep's two records came back
C9_Witness ==
    /\ enable_semgrep /\ ~enable_gitleaks
    /\ pc = "complete"
    /\ semgrep_out.kind = "returned" /\ Len(semgrep_out.value) = 2
    /\ gitleaks_out = NotCalled
    /\ result.kind = "returned" /\ result.value # <<>>

\* ------------------------------------------------- claims on redaction
\* sub occurs in s as a contiguous run
Contains(s, sub) ==
    \E i \in 1..(Len(s) - Len(sub) + 1) : SubSeq(s, i, i + Len(sub) - 1) = sub

\* the contiguous substrings of s of at least n characters
SubstringsFrom(s, n) ==
    {SubSeq(s, i, j) : i \in 1..Len(s), j \in 1..Len(s)} \ {t \in SeqUpTo(SecretChars, n - 1) : TRUE}

\* C10: a secret of more than 8 characters is returned as its first 4 and
\* last 4 characters around a mask, and the result holds neither the secret
\* nor any run of 9 or more of its characters; a secret of at most 8
\* characters (the empty one too) is returned as "[REDACTED]".
C10_RedactionInvariant ==
    rpc = "returned" =>
        IF Len(secret) > 8
        THEN /\ SubSeq(redacted, 1, 4) = SubSeq(secret, 1, 4)
             /\ SubSeq(redacted, Len(redacted) - 3, Len(redacted))
                   = SubSeq(secret, Len(secret) - 3, Len(secret))
             /\ ~Contains(redacted, secret)
             /\ \A t \in SubstringsFrom(secret, 9) : ~Contains(redacted, t)
        ELSE redacted = REDACTED

\* ------------------------------------------- claims on the Gitleaks adapter
\* C11: the finding built from a match with a non-empty Secret holds that
\* Secret neither in its evidence code_snippet nor in its remediation.
C11_NoPlaintextSecret ==
    (gl_finding.kind = "returned" /\ gl_match.Secret # <<>>) =>
        /\ ~Contains(gl_finding.value.evidence[1].code_snippet, gl_match.Secret)
        /\ ~Contains(gl_finding.value.remediation, gl_match.Secret)

\* C12: analyze and scan never raise, and a timeout, a missing executable
\* or output that does not parse makes each return the empty list.
SemgrepToolFailed ==
    \/ sg_proc.kind = "raised"
    \/ sg_proc.kind = "completed" /\ sg_proc.stdout.text # "json"
GitleaksToolFailed ==
    \/ gl_proc.kind = "raised"
    \/ gl_proc.kind = "completed"
          /\ \E i \in 1..Len(gl_proc.stdout) : gl_proc.stdout[i].text = "garbage"

C12_AdapterBoundary ==
    /\ sg_out # NotCalled =>
          /\ sg_out.kind = "returned"
          /\ SemgrepToolFailed => sg_out.value = <<>>
    /\ gl_out # NotCalled =>
          /\ gl_out.kind = "returned"
          /\ GitleaksToolFailed => gl_out.value = <<>>

\* scan has returned [] for output whose first line was a good match and
\* whose second line did not parse
C12_Witness ==
    /\ gl_proc.kind = "completed" /\ gl_proc.returncode = 1
    /\ Len(gl_proc.stdout) = 2
    /\ gl_proc.stdout[1] = JsonText(M_key)
    /\ gl_proc.stdout[2] = GarbageText
    /\ gl_out = Returned(<<>>)

\* the native results of the Semgrep document, when analyze kept every
\* one of them, so that the i-th finding comes from the i-th result
SemgrepKeptAll ==
    /\ sg_out.kind = "returned" /\ sg_out.value # <<>>
    /\ sg_proc.stdout.text = "json"
    /\ "results" \in DOMAIN sg_proc.stdout.value
    /\ Len(sg_proc.stdout.value.results) = Len(sg_out.value)
NativeLevel(i) == Get(sg_proc.stdout.value.results[i].extra, "severity", "(absent)")

\* C13: Semgrep's ERROR, WARNING and INFO, in any letter case, become
\* critical, high and medium; every Gitleaks finding is critical; every
\* severity an adapter emits is in the closed set.
C13_SeverityNormalisation ==
    /\ sg_out.kind = "returned" =>
          \A i \in 1..Len(sg_out.value) : sg_out.value[i].severity \in SeverityEnum
    /\ gl_out.kind = "returned" =>
          \A i \in 1..Len(gl_out.value) : gl_out.value[i].severity = "critical"
    /\ SemgrepKeptAll =>
          \A i \in 1..Len(sg_out.value) :
              /\ NativeLevel(i) \in {"ERROR", "error"} => sg_out.value[i].severity = "critical"
              /\ NativeLevel(i) \in {"WARNING", "Warning"} => sg_out.value[i].severity = "high"
              /\ NativeLevel(i) \in {"INFO", "info"} => sg_out.value[i].severity = "medium"

\* analyze has returned the findings of a lower-case error and a
\* mixed-case Warning
C13_Witness ==
    /\ SemgrepKeptAll
    /\ Len(sg_out.value) = 2
    /\ NativeLevel(1) = "error" /\ sg_out.value[1].severity = "critical"
    /\ NativeLevel(2) = "Warning" /\ sg_out.value[2].severity = "high"

UnknownLevel(i) == NativeLevel(i) \notin {"ERROR", "error", "WARNING", "Warning", "INFO", "info"}

\* C14 as stated: a Semgrep severity that is unknown or missing becomes info.
C14_UnknownToInfo ==
    SemgrepKeptAll =>
        \A i \in 1..Len(sg_out.value) : UnknownLevel(i) => sg_out.value[i].severity = "info"

\* C14 amended: a Semgrep severity that is unknown or missing becomes medium.
C14_UnknownToMedium ==
    SemgrepKeptAll =>
        \A i \in 1..Len(sg_out.value) : UnknownLevel(i) => sg_out.value[i].severity = "medium"

\* analyze has returned the findings of a result with the level "low" and
\* of a result with no level
C14_Witness ==
    /\ SemgrepKeptAll
    /\ Len(sg_out.value) = 2
    /\ NativeLevel(1) = "low" /\ NativeLevel(2) = "(absent)"
    /\ sg_out.value[1].severity = "medium" /\ sg_out.value[2].severity = "medium"

\* ------------------------------------------------- claims on the pipeline
\* how often the record r occurs in the list fs
Occurrences(fs, r) == Cardinality({i \in 1..Len(fs) : fs[i] = r})
\* the adapter outputs of this scan, Semgrep's first
Concatenated == ListOf(semgrep_out) \o ListOf(gitleaks_out)
KeysOf(fs) == {DedupKey(fs[i]) : i \in 1..Len(fs)}
ValidOf(fs) == SelectSeq(fs, SchemaValid)

\* C16: every record validate_all and scan return is one of the input
\* records, equal to it in every field and evidence item, and no record
\* is returned more often than it was put in.
C16_ContentNeverMutated ==
    /\ vpc = "returned" =>
          \A i \in 1..Len(sorted_findings) :
              /\ sorted_findings[i] \in Range(findings)
              /\ Occurrences(sorted_findings, sorted_findings[i])
                    <= Occurrences(findings, sorted_findings[i])
    /\ result.kind = "returned" =>
          \A i \in 1..Len(result.value) :
              /\ result.value[i] \in Range(Concatenated)
              /\ Occurrences(result.value, result.value[i])
                    <= Occurrences(Concatenated, result.value[i])

\* scan returned after a high record and a critical record with the same
\* key came in, and the survivor is the untouched high record
C16_Witness ==
    /\ result.kind = "returned"
    /\ Concatenated = <<F_high_a5, F_crit_a5>>
    /\ result.value = <<F_high_a5>>

\* C17: the keys of the records scan returns are exactly the keys of the
\* schema-valid records of the concatenated adapter outputs, each once.
C17_MergeLosesNoKey ==
    (result.kind = "returned" /\ InCalls("validate_all")) =>
        /\ KeysOf(result.value) = KeysOf(ValidOf(Concatenated))
        /\ \A i, j \in 1..Len(result.value) :
              DedupKey(result.value[i]) = DedupKey(result.value[j]) => i = j

\* Semgrep and Gitleaks each returned one valid record, the keys differ,
\* and both records are in the result
C17_Witness ==
    /\ result.kind = "returned"
    /\ semgrep_out = Returned(<<F_high_a2>>)
    /\ gitleaks_out = Returned(<<F_crit_a5>>)
    /\ Range(result.value) = {F_high_a2, F_crit_a5}

\* C18: the result of scan is sort(deduplicate(validate(concatenated
\* adapter outputs))), so the survivor of a key collision is the record
\* that came first, whatever the severities.
C18_FixedStageOrder ==
    result.kind = "returned" =>
        /\ result.value = _sort_by_severity(_deduplicate(ValidateLoop(Concatenated, <<>>)))
        /\ \A i \in 1..Len(result.value) :
              result.value[i] = FirstWithKey(Concatenated, DedupKey(result.value[i]))

\* the less severe record came first and is the only one returned
C18_Witness ==
    /\ result.kind = "returned"
    /\ Len(Concatenated) = 2
    /\ SchemaValid(Concatenated[1]) /\ SchemaValid(Concatenated[2])
    /\ DedupKey(Concatenated[1]) = DedupKey(Concatenated[2])
    /\ SeverityRank(Concatenated[2]) < SeverityRank(Concatenated[1])
    /\ result.value = <<Concatenated[1]>>
    /\ deduplicated = <<Concatenated[1]>>

\* C19: Semgrep is called, and has returned or failed, before Gitleaks is
\* called; the list handed to validation is Semgrep's records followed by
\* Gitleaks'; for a key both adapters report, the Semgrep record is returned.
C19_AdapterOrder ==
    /\ \A i, j \in 1..Len(calls) :
          (calls[i] = "semgrep.analyze" /\ calls[j] = "gitleaks.scan") => i < j
    /\ (InCalls("gitleaks.scan") /\ enable_semgrep) =>
          (InCalls("semgrep.analyze") /\ semgrep_out # NotCalled)
    /\ ~InCalls("semgrep.analyze") => semgrep_out = NotCalled
    /\ InCalls("validate_all") => findings = Concatenated
    /\ result.kind = "returned" =>
          \A i \in 1..Len(result.value) :
              DedupKey(result.value[i]) \in KeysOf(ValidOf(ListOf(semgrep_out))) =>
                  result.value[i] = FirstWithKey(ListOf(semgrep_out), DedupKey(result.value[i]))

\* both adapters reported the same key with different records and the
\* Semgrep one came back
C19_Witness ==
    /\ result.kind = "returned"
    /\ semgrep_out = Returned(<<F_high_a5>>)
    /\ gitleaks_out = Returned(<<F_crit_a5, F_high_a2>>)
    /\ F_high_a5 \in Range(result.value)
    /\ F_crit_a5 \notin Range(result.value)

\* ------------------------------------------- claims on the key of _deduplicate
NoEvidence(f) == Get(f, "evidence", <<>>) = <<>>
RuleOf(f) == Get(f, "rule_id", "")
OwnPath(f) == Get(f, "path", "")
OwnLines(f) == Get(f, "lines", <<>>)
\* the first record of fs that has the key of fs[i]
FirstOfKey(fs, i) ==
    fs[CHOOSE j \in 1..Len(fs) :
        /\ DedupKey(fs[j]) = DedupKey(fs[i])
        /\ \A k \in 1..Len(fs) : DedupKey(fs[k]) = DedupKey(fs[i]) => j <= k]

RECURSIVE LeadingDigits(_)
LeadingDigits(s) ==
    IF s = <<>> \/ Head(s) \notin Digits THEN <<>>
    ELSE <<Head(s)>> \o LeadingDigits(Tail(s))

\* the integer right after the "L" a lines string starts with, and 0 for a
\* string that does not start with "L" and a digit
LineAfterFirstL(lines_str) ==
    IF lines_str # <<>> /\ Head(lines_str) = "L" /\ LeadingDigits(Tail(lines_str)) # <<>>
    THEN IntOf(LeadingDigits(Tail(lines_str))) ELSE 0

FirstLines(f) ==
    IF "evidence" \in DOMAIN f /\ f.evidence # <<>> /\ "lines" \in DOMAIN f.evidence[1]
    THEN f.evidence[1].lines ELSE <<>>

\* C21: the first component of the sort key is the severity rank, 4 for a
\* severity outside the five names (in any letter case) or absent; the
\* second is the integer
\* right after the first "L" of the first evidence item's lines, and 0
\* when there is no evidence, no lines, or no "L<n>" at the front.
C21_SortKeys ==
    key_out.kind = "returned" =>
        /\ key_out.value[1] =
              (IF "severity" \in DOMAIN key_in /\ Lower(key_in.severity) \in SeverityEnum
               THEN severity_order[Lower(key_in.severity)] ELSE 4)
        /\ key_out.value[2] = LineAfterFirstL(FirstLines(key_in))

\* ------------------------------------------------- claims on the sort
\* where the record r stands in the list fs
PositionIn(fs, r) == CHOOSE i \in 1..Len(fs) : fs[i] = r

\* C22: two returned records with the same (severity rank, line number)
\* stand in the order they had after deduplication.
C22_StableSort ==
    vpc = "returned" =>
        \A i, j \in 1..Len(sorted_findings) :
            (i < j /\ sort_key(sorted_findings[i]) = sort_key(sorted_findings[j])) =>
                PositionIn(deduplicated, sorted_findings[i])
                    < PositionIn(deduplicated, sorted_findings[j])

\* two high records on line 2 of different files came in after a low
\* record; the sort moved both ahead of it and kept them in their order
C22_Witness ==
    /\ vpc = "returned"
    /\ findings = <<F_low_b5, F_high_b2, F_high_a2>>
    /\ sort_key(F_high_b2) = sort_key(F_high_a2)
    /\ sorted_findings = <<F_high_b2, F_high_a2, F_low_b5>>

\* --------------------------------------------- claims on repeated scans
\* C23: a returned list holds only records of this scan's adapter outputs,
\* a scan given the adapter outputs of the previous scan returns the list
\* the previous scan returned, and no step of scan changes the flags.
C23_ScansStateless ==
    /\ [](result.kind = "returned" =>
            /\ \A i \in 1..Len(result.value) : result.value[i] \in Range(Concatenated)
            /\ (/\ prev # NotCalled
                /\ prev.semgrep_out = semgrep_out
                /\ prev.gitleaks_out = gitleaks_out) => prev.result = result)
    /\ [][UNCHANGED <<enable_semgrep, enable_gitleaks, strict_validation>>]_vars

\* the second of two scans with the same adapter outputs returned the same
\* two records again
C23_Witness ==
    /\ prev # NotCalled
    /\ prev.semgrep_out = Returned(<<F_high_a5, F_high_a2>>)
    /\ semgrep_out = prev.semgrep_out /\ gitleaks_out = prev.gitleaks_out
    /\ result.kind = "returned" /\ Len(result.value) = 2
    /\ result = prev.result

\* ------------------------------------------------- claims on the metrics
\* C24: the step that logs the metrics changes neither the raw list nor
\* the validated list, and the list scan returns is the list validate_all
\* returned.
C24_MetricsPure ==
    /\ [][pc = "metrics" =>
            /\ all_findings' = all_findings
            /\ validated_findings' = validated_findings
            /\ sorted_findings' = sorted_findings
            /\ result' = Returned(sorted_findings)]_vars
    /\ []((result.kind = "returned" /\ InCalls("_log_orchestration_metrics")) =>
            result.value = sorted_findings)

\* the metrics were logged for a scan whose validated list differs from the
\* raw list, and the validated list came back
C24_Witness ==
    /\ pc = "complete"
    /\ InCalls("_log_orchestration_metrics")
    /\ Len(all_findings) = 3 /\ Len(validated_findings) = 2
    /\ result = Returned(validated_findings)
    /\ validated_findings = sorted_findings

\* ------------------------------------------------------ claims on the CLI
\* C25: the output is written before the exit code is decided, whatever
\* the findings are; the command then exits 1 exactly when a finding is
\* critical and fail_on_critical is set, and 0 in every other case that is
\* not an error.
C25_OutputBeforeExit ==
    /\ cli_pc \in {"exit_code", "done"} =>
          /\ Len(cli_written) = 1
          /\ cli_written[1].findings = cli_findings.value
          /\ cli_written[1].to =
                (IF cli_output # None THEN <<"file", cli_output>>
                 ELSE IF cli_written[1].format = "json" THEN <<"stdout", "">>
                 ELSE <<"file", "findings.", cli_written[1].format>>)
    /\ cli_pc = "exit_code" => cli_exit = NotCalled
    /\ cli_pc = "done" =>
          /\ cli_exit.code \in {0, 1}
          /\ cli_exit.code = 1 <=>
                (cli_fail_on_critical
                 /\ \E i \in 1..Len(cli_findings.value) :
                        cli_findings.value[i].severity = "critical")

\* a critical finding was written to the default SARIF file and the
\* command then exited 1
C25_Witness ==
    /\ cli_pc = "done"
    /\ cli_format = "sarif" /\ cli_output = None /\ cli_fail_on_critical
    /\ cli_findings = Returned(<<F_crit_a5, F_high_a2>>)
    /\ cli_written[1].to = <<"file", "findings.", "sarif">>
    /\ cli_exit = Exited(1)

\* ---------------------------------------------------- claims on to_sarif
\* the rule_id a finding counts under: its own, or "unknown" without one
RuleIdOf(f) == IF "rule_id" \in DOMAIN f THEN f.rule_id ELSE "unknown"
\* the first finding of fs that counts under the rule id
FirstOfRule(fs, id) ==
    fs[CHOOSE i \in 1..Len(fs) :
        /\ RuleIdOf(fs[i]) = id
        /\ \A j \in 1..Len(fs) : RuleIdOf(fs[j]) = id => i <= j]
RECURSIVE EvidenceCount(_)
EvidenceCount(fs) ==
    IF fs = <<>> THEN 0 ELSE Len(Head(fs).evidence) + EvidenceCount(Tail(fs))
\* the finding the k-th result belongs to, results being laid out finding
\* by finding, evidence item by evidence item
RECURSIVE OwnerOf(_, _)
OwnerOf(fs, k) ==
    IF k <= Len(Head(fs).evidence) THEN Head(fs)
    ELSE OwnerOf(Tail(fs), k - Len(Head(fs).evidence))

\* C26: the rules are one per distinct rule_id of the findings (a finding
\* without rule_id counting under "unknown"), each made from the first
\* finding of its id; there is one result per evidence item; every ruleId
\* is the id of a rule in the list; the level is error for critical and
\* high, warning for medium, note for low and info.
C26_SarifRuleIdentity ==
    sarif_out.kind = "returned" =>
        LET rules == sarif_out.value.rules
            results == sarif_out.value.results
        IN /\ {rules[i].id : i \in 1..Len(rules)}
                = {RuleIdOf(sarif_in[i]) : i \in 1..Len(sarif_in)}
           /\ \A i, j \in 1..Len(rules) : rules[i].id = rules[j].id => i = j
           /\ \A i \in 1..Len(rules) :
                 LET first == FirstOfRule(sarif_in, rules[i].id)
                 IN /\ rules[i].tags = <<first.tool, first.severity>>
                    /\ "remediation" \in DOMAIN first
                          => rules[i].help = <<first.remediation>>
           /\ Len(results) = EvidenceCount(sarif_in)
           /\ \A k \in 1..Len(results) :
                 LET owner == OwnerOf(sarif_in, k)
                 IN /\ results[k].ruleId = RuleIdOf(owner)
                    /\ \E i \in 1..Len(rules) : rules[i].id = results[k].ruleId
                    /\ owner.severity \in {"critical", "high"} => results[k].level = "error"
                    /\ owner.severity = "medium" => results[k].level = "warning"
                    /\ owner.severity \in {"low", "info"} => results[k].level = "note"

\* two findings of rule r1 and one of r3 with two evidence items gave two
\* rules, r1 made from the first finding, and four results
C26_Witness ==
    /\ sarif_out.kind = "returned"
    /\ sarif_in = <<F_high_a5, F_crit_a5, S_med_two>>
    /\ Len(sarif_out.value.rules) = 2
    /\ sarif_out.value.rules[1].id = "r1"
    /\ sarif_out.value.rules[1].help = <<"rotate">>
    /\ Len(sarif_out.value.results) = 4
    /\ sarif_out.value.results[4].level = "warning"

\* ------------------------------------------------ claims on revalidation
\* C27: validate_all applied to its own result returns that result: the
\* same records in the same order.
C27_Idempotent ==
    prev.kind = "returned" /\ vpc = "returned"
        => /\ findings = prev.value
           /\ sorted_findings = prev.value

\* a first call that reordered its three records, followed by a second
\* call on its result
C27_Witness ==
    /\ prev.kind = "returned" /\ vpc = "returned"
    /\ prev.input = <<F_low_b5, F_high_b2, F_high_a2>>
    /\ prev.value = <<F_high_b2, F_high_a2, F_low_b5>>
    /\ sorted_findings = prev.value

\* ------------------------------------------------- claims on the flags
\* the string true in any letter case
TrueAnyCase == {"true", "True", "TRUE", "tRUE", "TrUe"}
\* the value that counts for a flag: the env dict's, else the process
\* environment's, else the default
EffectiveValue(key, default) ==
    IF env_arg # PyNone /\ key \in DOMAIN env_arg THEN env_arg[key]
    ELSE IF key \in DOMAIN os_env THEN os_env[key]
    ELSE default
Killed == KillKey \in DOMAIN os_env /\ os_env[KillKey] \in TrueAnyCase

\* C28: a flag is on exactly when the value that counts for it is the
\* string true in some letter case; the env dict's value counts before the
\* process environment's; with ORCHESTRATOR_DISABLED true in the process
\* environment both adapters are off whatever else is set, and
\* strict_validation is what its own flag says.
C28_FlagResolution ==
    ipc = "constructed" =>
        /\ enable_semgrep = (~Killed /\ EffectiveValue("ENABLE_SEMGREP", "true") \in TrueAnyCase)
        /\ enable_gitleaks = (~Killed /\ EffectiveValue("ENABLE_GITLEAKS", "true") \in TrueAnyCase)
        /\ strict_validation = (EffectiveValue("STRICT_VALIDATION", "false") \in TrueAnyCase)
        /\ (semgrep # None) = enable_semgrep
        /\ (gitleaks # None) = enable_gitleaks

\* the env dict switched Semgrep back on against the process environment
\* and "1" left Gitleaks off
C28_Witness ==
    /\ ipc = "constructed"
    /\ os_env = [ENABLE_SEMGREP |-> "false", ENABLE_GITLEAKS |-> "1"]
    /\ env_arg = [ENABLE_SEMGREP |-> "true"]
    /\ enable_semgrep /\ ~enable_gitleaks /\ ~strict_validation

\* ------------------------------------------ claims on Gitleaks parsing
\* what scan returns for the given lines under exit code 1
ScanOfLines(lines) == Gitleaks_scan(Completed(1, lines))

\* C29: when some non-blank line of the Gitleaks output is not JSON, scan
\* returns the empty list, whatever the lines before it gave; and when the
\* exit code is 2, scan returns the empty list whatever the output holds.
C29_AllOrNothing ==
    gl_out # NotCalled /\ gl_proc.kind = "completed" =>
        /\ (\E i \in 1..Len(gl_proc.stdout) :
               ~IsBlank(gl_proc.stdout[i]) /\ gl_proc.stdout[i].text # "json")
              => gl_out = Returned(<<>>)
        /\ gl_proc.returncode = 2 => gl_out = Returned(<<>>)

\* the first line alone gives a finding, and with an unparsable second
\* line scan has returned the empty list
C29_Witness ==
    /\ gl_proc.kind = "completed" /\ gl_proc.returncode = 0
    /\ gl_proc.stdout = <<JsonText(M_short), GarbageText>>
    /\ ScanOfLines(<<JsonText(M_short)>>).value # <<>>
    /\ gl_out = Returned(<<>>)

\* ---------------------------------------- claims on the line round trip
\* the decimal digits of a number below 100
Decimal(n) ==
    LET digit(d) == <<"0", "1", "2", "3", "4", "5", "6", "7", "8", "9">>[d + 1]
    IN IF n < 10 THEN <<digit(n)>> ELSE <<digit(n \div 10), digit(n % 10)>>
NativeResult == sg_proc.stdout.value.results[1]
NativeMatch == gl_proc.stdout[1].value

\* C30: for a Semgrep result with start line s and end line e the lines
\* string of the finding is "L<s>" when s = e and "L<s>-L<e>" otherwise,
\* and the sorter's secondary key of that finding is s; for a Gitleaks
\* match with StartLine n the string is "L<n>" and the key is n.
C30_LineRoundTrip ==
    /\ sg_out # NotCalled =>
          LET st == NativeResult.start.line
              en == NativeResult.end.line
          IN /\ sg_out.kind = "returned" /\ Len(sg_out.value) = 1
             /\ sg_out.value[1].evidence[1].lines =
                   IF st = en THEN <<"L">> \o Decimal(st)
                   ELSE <<"L">> \o Decimal(st) \o <<"-", "L">> \o Decimal(en)
             /\ key_out # NotCalled => key_out.value[2] = st
    /\ gl_out # NotCalled =>
          /\ gl_out.kind = "returned" /\ Len(gl_out.value) = 1
          /\ gl_out.value[1].evidence[1].lines = <<"L">> \o Decimal(NativeMatch.StartLine)
          /\ key_out # NotCalled => key_out.value[2] = NativeMatch.StartLine

\* a Semgrep result on lines 10 to 12 became "L10-L12" and sorts by 10
C30_Witness ==
    /\ sg_out # NotCalled /\ key_out # NotCalled
    /\ NativeResult.start.line = 10 /\ NativeResult.end.line = 12
    /\ key_in.evidence[1].lines = <<"L", "1", "0", "-", "L", "1", "2">>
    /\ key_out.value[2] = 10

====
